---- MODULE Spec2Model ----
(***************************************************************************)
(* Model of gobwas/graceful: the outbound buffer (response) that batches   *)
(* descriptors and length-prefixed metadata frames into messages of a      *)
(* Unix socket, and the Client loop that parses those messages.            *)
(***************************************************************************)
EXTENDS Integers, Sequences, FiniteSets, TLC

\* ------------------------------------------------------------------ bounds
\* Number of response.Write calls of one behaviour.
MaxWrites == 2
\* Longest metadata of one Write, in bytes.
MaxMetaLen == 3
\* An arbitrary peer of the client: descriptors in one of its messages,
\* messages it sends before it falls silent.
MaxFds == 2
MaxReceives == 2
\* A Server: connections it accepts, calls of Write one handler makes.
MaxConns == 2
MaxHandlerWrites == 1
\* Calls of the standalone senders a program makes.
MaxSends == 1

\* Reports a Server makes through its Logger.
MaxReports == 2

\* Payload capacities (msgn) and ancillary capacities (oobn) of newResponse
\* and NewClient that the behaviours start from.
MsgSizes == {3, 5, 9}
OobSizes == {16, 24, 48}

\* ------------------------------------------------------------------ errors
Nil == "nil"
ErrLongWrite == "long write"
ErrShortWrite == "short write"
ErrSend == "sendmsg failed"
ErrSource == "meta source failed"
EOF == "EOF"
\* A *net.OpError whose Err is io.EOF, and one with another cause.
OpErrorEOF == "read unix: EOF"
ErrRead == "read unix: connection reset by peer"
\* What the parsers of package syscall return for malformed data.
EINVAL == "invalid argument"
ErrNotUnixConn == "not a unix connection"
ErrNotUnixListener == "not a unix listener"
\* An error of the callback's own, of net.Dial, of Accept.
ErrCallback == "callback failed"
ErrDial == "dial unix: connect failed"
ErrEmptyControlMessage == "empty control message"
ErrEmptyFileDescriptors == "empty file descriptors"
\* Outcome of a call that did not return: a runtime panic.
Panic == "panic: index out of range"

\* ----------------------------------------------------------------- helpers
Min(a, b) == IF a < b THEN a ELSE b
Max(a, b) == IF a < b THEN b ELSE a

\* The concatenation of a sequence of sequences.
RECURSIVE Flatten(_)
Flatten(ss) == IF ss = <<>> THEN <<>> ELSE Head(ss) \o Flatten(Tail(ss))

msgHeaderSize == 4
zeroHeader == <<0, 0, 0, 0>>

\* binary.LittleEndian.PutUint32(b, uint32(v)): the four bytes written.  v
\* is a slice length, for which the conversion to uint32 changes nothing.
PutUint32(v) ==
    << v % 256, (v \div 256) % 256, (v \div 65536) % 256,
       (v \div 16777216) % 256 >>

\* int64(binary.LittleEndian.Uint32(p)).  The value is only compared with 0
\* and used as the limit of a reader over a payload far shorter than 65536
\* bytes, so every value from 65536 on is represented by 65536.
Uint32(p) ==
    IF p[3] # 0 \/ p[4] # 0 THEN 65536 ELSE p[1] + 256 * p[2]

\* copy(dst[off:], src): the destination afterwards.
CopyAt(dst, off, src) ==
    [i \in 1..Len(dst) |->
        IF i > off /\ i <= off + Len(src) THEN src[i - off] ELSE dst[i]]

\* copy(dst[off:], src): the number of bytes copied.
CopyLen(dst, off, src) == Min(Len(src), Len(dst) - off)

\* syscall.CmsgSpace(datalen) on linux/amd64: the aligned header (16 bytes)
\* plus the data aligned to 8 bytes.
CmsgAlignOf(x) == ((x + 7) \div 8) * 8
CmsgSpace(datalen) == CmsgAlignOf(16) + CmsgAlignOf(datalen)

sizeFromCmsgSpaceOfData(k) == k \div 4
sizeFromCmsgSpace(k) == k \div CmsgSpace(4)

\* ------------------------------------------------------- metadata sources
\* A metadata source is nil (no io.WriterTo at all) or an io.WriterTo that
\* hands its bytes to the writer in a sequence of chunks (strings.Reader: at
\* most one chunk; a gob encoder: several) and then reports err.  A source
\* stops at the first error of the writer and returns it.
NilMeta == [kind |-> "nil", chunks |-> <<>>, err |-> Nil]

\* The chunks of a source that hands over len bytes, at most c at a time.
RECURSIVE ChunksOf(_, _)
ChunksOf(len, c) ==
    IF len = 0 THEN <<>>
    ELSE IF len <= c THEN <<len>>
    ELSE <<c>> \o ChunksOf(len - c, c)

\* Sources that deliver all their bytes, and sources that fail on their own
\* account at once or after a first byte.
Sources ==
    {NilMeta} \cup
    {[kind |-> "writerTo", chunks |-> ChunksOf(len, c), err |-> Nil] :
        len \in 0..MaxMetaLen, c \in 1..MaxMetaLen} \cup
    {[kind |-> "writerTo", chunks |-> ChunksOf(len, 1), err |-> ErrSource] :
        len \in 0..1}

RECURSIVE SumSeq(_)
SumSeq(s) == IF s = <<>> THEN 0 ELSE Head(s) + SumSeq(Tail(s))

\* The bytes of the metadata written together with descriptor fd: byte j of
\* it is 16*fd + j, so that no two writes carry the same bytes.
MetaByte(fd, j) == (16 * fd + j) % 256
MetaBytes(fd, len) == [j \in 1..len |-> MetaByte(fd, j)]
ChunkBytes(fd, done, len) == [j \in 1..len |-> MetaByte(fd, done + j)]

\* The frame of metadata of length len written with descriptor fd: the
\* length as 4 bytes little-endian, then the bytes.
FrameOf(fd, len) == PutUint32(len) \o MetaBytes(fd, len)

\* ---------------------------------------------------------- bytes.Buffer
\* bytes.NewBuffer(p[:0]) for p == r.buf[off:]: the buffer starts empty on
\* the array of r.buf with capacity cap(p).  inplace is what it has stored
\* into that array; moved says that it has reallocated.
NewBuffer(pcap) ==
    [data |-> <<>>, cap |-> pcap, moved |-> FALSE, inplace |-> <<>>]

\* (*bytes.Buffer).Write: append by reslicing while the capacity suffices,
\* else grow into a new array (with off = 0 it never slides in place).
BufferWrite(b, p) ==
    IF Len(b.data) + Len(p) <= b.cap
    THEN [b EXCEPT !.data = b.data \o p,
                   !.inplace = IF b.moved THEN b.inplace ELSE b.data \o p]
    ELSE [b EXCEPT !.data = b.data \o p,
                   !.cap = Max(2 * b.cap, Len(b.data) + Len(p)),
                   !.moved = TRUE]

\* --------------------------------------------------------- limitedWriter
\* func (w limitedWriter) Write(p []byte): the receiver is a VALUE, so the
\* assignments to w.E and w.N change a copy; the limitedWriter the caller
\* holds (field w of the result) is the one it passed in.
limitedWriterWrite(w, p) ==
    IF w.N <= 0 \/ Len(p) > w.N
    THEN [n |-> 0, err |-> ErrLongWrite, w |-> w]
    ELSE [n |-> Len(p), err |-> Nil,
          w |-> [w EXCEPT !.W = BufferWrite(w.W, p)]]

\* meta.WriteTo(limbuf) of a source that writes its chunks in order, stops
\* at the first write error and returns it, else returns its own err.
RECURSIVE WriteChunks(_, _, _, _)
WriteChunks(chunks, fd, w, done) ==
    IF chunks = <<>>
    THEN [n |-> done, err |-> Nil, w |-> w]
    ELSE LET res == limitedWriterWrite(w, ChunkBytes(fd, done, Head(chunks)))
         IN  IF res.err # Nil
             THEN [n |-> done + res.n, err |-> res.err, w |-> res.w]
             ELSE WriteChunks(Tail(chunks), fd, res.w, done + res.n)

WriteTo(meta, fd, w) ==
    LET res == WriteChunks(meta.chunks, fd, w, 0)
    IN  IF res.err = Nil THEN [res EXCEPT !.err = meta.err] ELSE res

\* ---------------------------------------------------------------- response
\* newResponse(conn, msgn, oobn, log); the buffer of make([]byte, msgn) is
\* zeroed.
newResponse(m, o) ==
    [fds |-> <<>>, cap |-> sizeFromCmsgSpace(o),
     buf |-> [i \in 1..m |-> 0], n |-> 0, err |-> Nil]

\* syscall.UnixRights(fds...): one control message with all descriptors.
UnixRights(fds) == [len |-> CmsgSpace(4 * Len(fds)), fds |-> fds]

\* conn.WriteMsgUnix(b, oob, nil) with the outcome o of the transport:
\* "ok" queues the whole message; "short" queues the first o.k payload bytes
\* (all but the last one, when the payload has no more than k) with the
\* descriptors; "shortoob" reports fewer ancillary bytes than requested and
\* queues the message without its last descriptor; "fail" queues nothing and
\* reports an error.
WriteMsgUnix(wire, b, oob, o) ==
    CASE o.kind = "ok" ->
           [wire |-> Append(wire, [msg |-> b, fds |-> oob.fds]),
            msgn |-> Len(b), oobn |-> oob.len, err |-> Nil]
      [] o.kind = "short" ->
           LET k == Min(o.k, Len(b) - 1)
           IN  [wire |-> Append(wire, [msg |-> SubSeq(b, 1, k),
                                       fds |-> oob.fds]),
                msgn |-> k, oobn |-> oob.len, err |-> Nil]
      [] o.kind = "shortoob" ->
           [wire |-> Append(wire,
                [msg |-> b, fds |-> SubSeq(oob.fds, 1, Len(oob.fds) - 1)]),
            msgn |-> Len(b), oobn |-> oob.len - 4, err |-> Nil]
      [] OTHER ->
           [wire |-> wire, msgn |-> 0, oobn |-> 0, err |-> ErrSend]

\* Line 358: nothing to flush.
FlushEmptyNever(r) == FALSE
FlushEmpty(r) == Len(r.fds) = 0

\* Line 362: msgBytes = r.buf[:r.n]
FlushWholeBuf(r) == r.buf
FlushMsgBytes(r) == SubSeq(r.buf, 1, r.n)

\* Lines 366-368: a send that accepted less than requested is an error.
FlushErrIgnoresShort(res, msgBytes, oobBytes) == res.err
FlushErr(res, msgBytes, oobBytes) ==
    IF res.err = Nil /\ (res.msgn < Len(msgBytes) \/ res.oobn < oobBytes.len)
    THEN ErrShortWrite ELSE res.err

\* Lines 369-371: store the error, empty the batch.
FlushResetForgetsErr(r, err) == [r EXCEPT !.n = 0, !.fds = <<>>]
FlushReset(r, err) == [r EXCEPT !.err = err, !.n = 0, !.fds = <<>>]

\* func (r *response) Flush() error.  The result names the response and the
\* connection afterwards, the value returned, and the calls of WriteMsgUnix
\* made: what each was asked to send and what it returned.
Flush(r, wire, o) ==
    IF r.err # Nil
    THEN [r |-> r, wire |-> wire, ret |-> r.err, sent |-> <<>>]
    ELSE IF FlushEmpty(r)
    THEN [r |-> r, wire |-> wire, ret |-> Nil, sent |-> <<>>]
    ELSE LET msgBytes == FlushMsgBytes(r)
             oobBytes == UnixRights(r.fds)
             res == WriteMsgUnix(wire, msgBytes, oobBytes, o)
             err == FlushErr(res, msgBytes, oobBytes)
         IN  [r |-> FlushReset(r, err),
              wire |-> res.wire, ret |-> err,
              sent |-> << [msg |-> msgBytes, fds |-> r.fds,
                           ooblen |-> oobBytes.len, msgn |-> res.msgn,
                           oobn |-> res.oobn, err |-> res.err] >>]

\* append(r.fds, fd): within the capacity the array is kept, beyond it Go
\* allocates a larger one.
AppendFd(r, fd) ==
    [r EXCEPT !.fds = Append(r.fds, fd),
              !.cap = IF Len(r.fds) < r.cap THEN r.cap
                      ELSE Max(2 * r.cap, 1)]

\* if len(r.fds) == cap(r.fds): no space for a new descriptor.
NoSpaceForDescriptorNever(r) == FALSE
NoSpaceForDescriptor(r) == Len(r.fds) = r.cap

\* if len(r.buf)-r.n < msgHeaderSize: no space even for an empty meta.
NoSpaceForHeader(r) == Len(r.buf) - r.n < msgHeaderSize

\* The test at label flush: a flush was already made by this call.
TooManyFlushesAfterTwo(l) == l.flushes >= 2
TooManyFlushes(l) == l.ret # Nil

\* The locals of one call of response.Write, with the response r and the
\* connection wire it acts on.  haveBytes stands for metaBytes != nil;
\* flushes and writeTos count the calls of r.Flush and of meta.WriteTo made
\* by this call, sent lists its calls of WriteMsgUnix.
WriteLocals(r, wire, meta) ==
    [r |-> r, wire |-> wire, meta |-> meta, metaBytes |-> <<>>,
     haveBytes |-> FALSE, mustCopy |-> FALSE, ret |-> Nil,
     flushes |-> 0, sent |-> <<>>, writeTos |-> 0]

WriteReturn(l, ret) ==
    [r |-> l.r, wire |-> l.wire, ret |-> ret, flushes |-> l.flushes,
     sent |-> l.sent, writeTos |-> l.writeTos]

\* Lines 329-340: buffer the header and the meta bytes, append fd.
WriteFrame(l, fd) ==
    LET r == l.r
        hdr == CopyAt(r.buf, r.n, PutUint32(Len(l.metaBytes)))
        n1 == r.n + msgHeaderSize
        buf == IF l.mustCopy THEN CopyAt(hdr, n1, l.metaBytes) ELSE hdr
        n2 == IF l.mustCopy THEN n1 + CopyLen(hdr, n1, l.metaBytes)
              ELSE n1 + Len(l.metaBytes)
    IN  WriteReturn([l EXCEPT !.r = AppendFd([r EXCEPT !.buf = buf,
                                                       !.n = n2], fd)], Nil)

\* if metaBytes == nil: meta.WriteTo has not been called by this call.
MetaBytesNilAlways(l) == TRUE
MetaBytesNil(l) == ~l.haveBytes

\* func (r *response) Write(fd int, meta io.WriterTo) (ret error), after the
\* test of r.err: the for loop with its label flush.  o is the outcome of
\* the send, if one is made.
RECURSIVE WriteLoop(_, _, _), WriteAtFlush(_, _, _)

\* Lines 342-350, the label flush: give up if this call has flushed before,
\* else flush and go round the loop again.
WriteAtFlush(l, fd, o) ==
    IF TooManyFlushes(l)
    THEN WriteReturn(l, l.ret)
    ELSE LET f == Flush(l.r, l.wire, o)
             l1 == [l EXCEPT !.ret = ErrLongWrite, !.r = f.r,
                             !.wire = f.wire,
                             !.flushes = l.flushes + 1,
                             !.sent = l.sent \o f.sent]
         IN  IF f.ret # Nil THEN WriteReturn(l1, f.ret)
             ELSE WriteLoop(l1, fd, o)

\* Lines 284-340, one round of the for loop.
WriteLoop(l, fd, o) ==
    LET r == l.r
    IN  IF NoSpaceForDescriptor(r) THEN WriteAtFlush(l, fd, o)
        ELSE IF NoSpaceForHeader(r) THEN WriteAtFlush(l, fd, o)
        ELSE IF l.meta.kind = "nil"
        THEN WriteReturn([l EXCEPT !.r = AppendFd(
                 [r EXCEPT !.buf = CopyAt(r.buf, r.n, zeroHeader),
                           !.n = r.n + CopyLen(r.buf, r.n, zeroHeader)],
                 fd)], Nil)
        ELSE IF MetaBytesNil(l)
        THEN LET off == r.n + msgHeaderSize
                 pcap == Len(r.buf) - off
                 limbuf == [W |-> NewBuffer(pcap),
                            N |-> Len(r.buf) - msgHeaderSize, E |-> FALSE]
                 wt == WriteTo(l.meta, fd, limbuf)
                 \* what the source stored into the array of r.buf
                 l1 == [l EXCEPT !.r.buf = CopyAt(r.buf, off, wt.w.W.inplace),
                                 !.writeTos = l.writeTos + 1]
             IN  IF wt.w.E THEN WriteReturn(l1, ErrLongWrite)
                 ELSE IF wt.err # Nil THEN WriteReturn(l1, wt.err)
                 ELSE IF wt.n = 0
                 THEN WriteLoop([l1 EXCEPT !.meta = NilMeta], fd, o)
                 ELSE IF pcap = 0
                 \* &p[0] of the empty slice p: index out of range
                 THEN WriteReturn(l1, Panic)
                 ELSE IF wt.w.W.moved
                 \* reallocation was made: must flush before
                 THEN WriteAtFlush([l1 EXCEPT !.metaBytes = wt.w.W.data,
                                              !.haveBytes = TRUE,
                                              !.mustCopy = TRUE], fd, o)
                 ELSE WriteFrame([l1 EXCEPT !.metaBytes = wt.w.W.data,
                                            !.haveBytes = TRUE], fd)
        ELSE WriteFrame(l, fd)

\* func (r *response) Write(fd int, meta io.WriterTo) (ret error)
Write(r, wire, fd, meta, o) ==
    IF r.err # Nil
    THEN WriteReturn(WriteLocals(r, wire, meta), r.err)
    ELSE WriteLoop(WriteLocals(r, wire, meta), fd, o)

\* ------------------------------------------ the writer of the gob era
\* src/server.go.  A Meta of the gob era is encoded by one gob.Encoder per
\* writer.  The encoder hands the buffer one message per Write call: before
\* the first value the description of the type, then the value.  vlen is
\* the size of what the Meta holds; err is the error Encode finds in the
\* value before it writes anything of it (a type not registered).
GobMetas ==
    {[vlen |-> l, err |-> Nil] : l \in 0..MaxMetaLen} \cup
    {[vlen |-> 0, err |-> ErrSource]}

\* The message that describes the type Meta, and the message of a value:
\* a marker byte and the bytes of the value.
GobTypeByte == 255
GobTypeLen == 2
GobValueByte == 254
GobTypeMessage == [j \in 1..GobTypeLen |-> GobTypeByte]
GobValueMessage(fd, meta) == <<GobValueByte>> \o MetaBytes(fd, meta.vlen)

\* newBuffer(n)
newBuffer(n) == [p |-> [i \in 1..n |-> 0], n |-> 0]

\* func (b *buffer) Write(p []byte): copy what fits; when not all of p
\* fits, ErrLongWrite, and b.n stays.
gobBufferWrite(b, p) ==
    LET n == CopyLen(b.p, b.n, p)
    IN  IF Len(p) > n
        THEN [b |-> [b EXCEPT !.p = CopyAt(b.p, b.n, p)],
              err |-> ErrLongWrite]
        ELSE [b |-> [p |-> CopyAt(b.p, b.n, p), n |-> b.n + n],
              err |-> Nil]

\* newResponseWriter(conn, msgn, oobn, log) of src/server.go
gobNewResponseWriter(m, o) ==
    [fds |-> <<>>, cap |-> sizeFromCmsgSpace(o), buf |-> newBuffer(m),
     typeSent |-> FALSE, err |-> Nil]

\* rw.enc.Encode(meta): the description of the type, unless the encoder has
\* sent it (it counts as sent once its Write has succeeded), then the
\* value.  The first error ends the call.
gobEncode(rw, fd, meta) ==
    LET t == IF rw.typeSent THEN [b |-> rw.buf, err |-> Nil]
             ELSE gobBufferWrite(rw.buf, GobTypeMessage)
    IN  IF t.err # Nil
        THEN [rw |-> [rw EXCEPT !.buf = t.b], err |-> t.err]
        ELSE IF meta.err # Nil
        THEN [rw |-> [rw EXCEPT !.buf = t.b, !.typeSent = TRUE],
              err |-> meta.err]
        ELSE LET v == gobBufferWrite(t.b, GobValueMessage(fd, meta))
             IN  [rw |-> [rw EXCEPT !.buf = v.b, !.typeSent = TRUE],
                  err |-> v.err]

\* func (rw *responseWriter) Flush() error, src/server.go lines 228-247.
gobFlush(rw, wire, o) ==
    IF rw.err # Nil
    THEN [rw |-> rw, wire |-> wire, ret |-> rw.err]
    ELSE IF Len(rw.fds) = 0
    THEN [rw |-> rw, wire |-> wire, ret |-> Nil]
    ELSE LET msgBytes == SubSeq(rw.buf.p, 1, rw.buf.n)
             oobBytes == UnixRights(rw.fds)
             res == WriteMsgUnix(wire, msgBytes, oobBytes, o)
             err == IF res.err = Nil /\ (\/ res.msgn < Len(msgBytes)
                                         \/ res.oobn < oobBytes.len)
                    THEN ErrShortWrite ELSE res.err
         IN  [rw |-> [rw EXCEPT !.err = err, !.buf.n = 0, !.fds = <<>>],
              wire |-> res.wire, ret |-> err]

\* func (rw *responseWriter) Write(fd int, meta Meta) (ret error), the loop
\* of src/server.go lines 201-225; ret is the named result.
RECURSIVE gobWriteLoop(_, _, _, _, _, _)
gobWriteLoop(rw, wire, fd, meta, o, ret) ==
    LET full == Len(rw.fds) = rw.cap
        e == IF full THEN [rw |-> rw, err |-> Nil]
             ELSE gobEncode(rw, fd, meta)
    IN  IF full \/ e.err = ErrLongWrite
        THEN IF ret # Nil
             THEN [rw |-> e.rw, wire |-> wire, ret |-> ret]
             ELSE LET f == gobFlush(e.rw, wire, o)
                  IN  IF f.ret # Nil
                      THEN f
                      ELSE gobWriteLoop(f.rw, f.wire, fd, meta, o,
                                        ErrLongWrite)
        ELSE IF e.err # Nil
        THEN [rw |-> [e.rw EXCEPT !.err = e.err], wire |-> wire,
              ret |-> e.err]
        ELSE [rw |-> [e.rw EXCEPT !.fds = Append(e.rw.fds, fd)],
              wire |-> wire, ret |-> Nil]

\* Lines 197-200.
gobWrite(rw, wire, fd, meta, o) ==
    IF rw.err # Nil
    THEN [rw |-> rw, wire |-> wire, ret |-> rw.err]
    ELSE gobWriteLoop(rw, wire, fd, meta, o, Nil)

\* ------------------------------------------------------------------ Client
\* What conn.ReadMsgUnix(msg, oob) hands to receive: its error err, or the
\* payload msg[:msgn] and the ancillary data oob[:oobn].  parse is the error
\* syscall.ParseSocketControlMessage finds in the ancillary data, cmsgs the
\* control messages it yields; rights says that a control message is
\* SOL_SOCKET/SCM_RIGHTS, fds names the descriptors it carries.
ReadResult(err, msg, parse, cmsgs) ==
    [err |-> err, msg |-> msg, parse |-> parse, cmsgs |-> cmsgs]

\* conn.ReadMsgUnix(msg, oob) on one queued message: the payload is cut to
\* len(msg), and the kernel hands over the descriptors that fit into oob
\* (header of 16 bytes, 4 bytes each), none if not even the header fits.
ReadMsgUnix(m, msglen, ooblen) ==
    LET fit == IF ooblen < 16 THEN 0 ELSE (ooblen - 16) \div 4
        k == Min(Len(m.fds), fit)
    IN  ReadResult(Nil, SubSeq(m.msg, 1, Min(Len(m.msg), msglen)), Nil,
                   IF k = 0 THEN <<>>
                   ELSE << [rights |-> TRUE, fds |-> SubSeq(m.fds, 1, k)] >>)

\* func isEOF(err error) bool: io.EOF itself or a *net.OpError holding it.
isEOF(err) == err \in {OpErrorEOF, EOF}

\* syscall.ParseUnixRights(&cmsg[0]): EINVAL unless the control message is
\* SOL_SOCKET/SCM_RIGHTS.
ParseUnixRights(cmsg) ==
    IF cmsg.rights THEN [fds |-> cmsg.fds, err |-> Nil]
    ELSE [fds |-> <<>>, err |-> EINVAL]

\* (*bytes.Reader).Read(p) with len(p) = 4 at offset pos of data: p
\* afterwards, the count, and io.EOF when nothing is left.
ReaderRead(data, pos, p) ==
    IF pos >= Len(data)
    THEN [p |-> p, n |-> 0, err |-> EOF]
    ELSE LET k == Min(4, Len(data) - pos)
         IN  [p |-> [i \in 1..4 |-> IF i <= k THEN data[pos + i] ELSE p[i]],
              n |-> k, err |-> Nil]

\* The callback given to receive: within one call of receive its at-th
\* invocation returns err, every other one nil; of the bytes its meta
\* reader has, each invocation reads all (ioutil.ReadAll), half, or none.
NoCallbackError == [at |-> 0, err |-> Nil, take |-> "all"]
CallbackReturn(cb, i) == IF i = cb.at THEN cb.err ELSE Nil
CallbackTakes(cb, avail) ==
    CASE cb.take = "all" -> avail
      [] cb.take = "part" -> avail \div 2
      [] cb.take = "none" -> 0

\* io.LimitReader(r, n) after the callback has read k of its bytes:
\* io.Copy(ioutil.Discard, meta) reads what is left of the n bytes, or of
\* the payload, and leaves the reader r behind them.
CopyDiscardNothing(data, pos, left) == pos
CopyDiscard(data, pos, left) == pos + Min(left, Len(data) - pos)

\* Lines 150-153: the meta reader is nil unless the header is positive.
NilReaderNever(n) == FALSE
NilReader(n) == n = 0

\* Line 156: if err := cb(fd, meta); err != nil
CallbackFailedNever(ret) == FALSE
CallbackFailed(ret) == ret # Nil

\* Lines 145-166 of receive: the loop over the descriptors, from the i-th
\* on.  Each callback gets the descriptor and an io.LimitReader over the
\* next n bytes (nil when n is 0); the record of a callback holds the bytes
\* that reader has for it (meta), those the callback has read (read) and what
\* the callback returned.  What the callback left unread is discarded.
RECURSIVE receiveLoop(_, _, _, _, _, _, _)
receiveLoop(data, pos, p, fds, i, cbs, cb) ==
    IF i > Len(fds)
    THEN [cbs |-> cbs, err |-> Nil]
    ELSE LET rd == ReaderRead(data, pos, p)
             n == Uint32(rd.p)
             pos1 == pos + rd.n
             avail == Min(n, Len(data) - pos1)
             ret == CallbackReturn(cb, i)
             took == CallbackTakes(cb, avail)
             call == [fd |-> fds[i], isNil |-> NilReader(n),
                      meta |-> SubSeq(data, pos1 + 1, pos1 + avail),
                      read |-> SubSeq(data, pos1 + 1, pos1 + took),
                      ret |-> ret]
         IN  IF rd.err # Nil
             THEN [cbs |-> cbs, err |-> rd.err]
             ELSE IF CallbackFailed(ret)
             THEN [cbs |-> Append(cbs, call), err |-> ret]
             ELSE receiveLoop(data,
                              IF NilReader(n) THEN pos1
                              ELSE CopyDiscard(data, pos1 + took, n - took),
                              rd.p, fds, i + 1, Append(cbs, call), cb)

\* Line 112: conn, ok := c.(*net.UnixConn)
IsUnixConnAlways(c) == TRUE
IsUnixConn(c) == c = "unix"

\* Line 130: if len(cmsg) == 0
EmptyControlMessage(cmsgs) == Len(cmsgs) = 0

\* Line 137: if len(fds) == 0
EmptyFileDescriptorsNever(fds) == FALSE
EmptyFileDescriptors(fds) == Len(fds) = 0

\* func receive(c net.Conn, msg, oob []byte, cb ReceiveCallback) error, for
\* a connection c of dynamic type "unix" (*net.UnixConn) or another, where
\* rm is what conn.ReadMsgUnix hands over.  The result names the callbacks
\* made, the error returned and the number of calls of ReadMsgUnix.
receive(c, rm, cb) ==
    IF ~IsUnixConn(c)
    THEN [cbs |-> <<>>, err |-> ErrNotUnixConn, reads |-> 0]
    ELSE IF rm.err # Nil
    THEN [cbs |-> <<>>, err |-> IF isEOF(rm.err) THEN EOF ELSE rm.err,
          reads |-> 1]
    ELSE IF rm.parse # Nil
    THEN [cbs |-> <<>>, err |-> rm.parse, reads |-> 1]
    ELSE IF EmptyControlMessage(rm.cmsgs)
    THEN [cbs |-> <<>>, err |-> ErrEmptyControlMessage, reads |-> 1]
    ELSE LET rights == ParseUnixRights(rm.cmsgs[1])
         IN  IF rights.err # Nil
             THEN [cbs |-> <<>>, err |-> rights.err, reads |-> 1]
             ELSE IF EmptyFileDescriptors(rights.fds)
             THEN [cbs |-> <<>>, err |-> ErrEmptyFileDescriptors,
                   reads |-> 1]
             ELSE receiveLoop(rm.msg, 0, zeroHeader, rights.fds, 1, <<>>,
                              cb) @@ [reads |-> 1]

\* Lines 101-106 of Client.ReceiveAllFrom: what it returns for the error
\* err of a receive that failed.
ReceiveAllFromReturn(err) == IF err = EOF THEN Nil ELSE err

\* --------------------------------------------- the client of the gob era
\* What a gob.Decoder returns for a value whose type it has not been told.
ErrGobBadType == "gob: unknown type id or corrupted data"

\* The bytes of the value message at offset pos of data: they end at the
\* next message or with the data.
RECURSIVE GobValueEnd(_, _)
GobValueEnd(data, pos) ==
    IF pos >= Len(data) \/ data[pos + 1] \in {GobTypeByte, GobValueByte}
    THEN pos
    ELSE GobValueEnd(data, pos + 1)

\* dec.Decode(&meta) of a decoder that has read data up to pos; known says
\* that it has read the description of the type Meta.  A description is
\* taken in and the next message is read; a value is decoded if its type
\* is known; the end of the data is io.EOF.
RECURSIVE gobDecode(_, _, _)
gobDecode(data, pos, known) ==
    IF pos >= Len(data)
    THEN [meta |-> <<>>, pos |-> pos, known |-> known, err |-> EOF]
    ELSE IF data[pos + 1] = GobTypeByte
    THEN IF SubSeq(data, pos + 1, pos + GobTypeLen) = GobTypeMessage
         THEN gobDecode(data, pos + GobTypeLen, TRUE)
         ELSE [meta |-> <<>>, pos |-> pos, known |-> known,
               err |-> ErrGobBadType]
    ELSE IF data[pos + 1] = GobValueByte /\ known
    THEN LET e == GobValueEnd(data, pos + 1)
         IN  [meta |-> SubSeq(data, pos + 2, e), pos |-> e,
              known |-> known, err |-> Nil]
    ELSE [meta |-> <<>>, pos |-> pos, known |-> known,
          err |-> ErrGobBadType]

\* receive of part_005, lines 110-117: the loop over the descriptors, from
\* the i-th on, with the one decoder of this message.
RECURSIVE gobReceiveLoop(_, _, _, _, _, _)
gobReceiveLoop(data, pos, known, fds, i, cbs) ==
    IF i > Len(fds)
    THEN [cbs |-> cbs, err |-> Nil]
    ELSE LET d == gobDecode(data, pos, known)
         IN  IF d.err # Nil
             THEN [cbs |-> cbs, err |-> d.err]
             ELSE gobReceiveLoop(data, d.pos, d.known, fds, i + 1,
                                 Append(cbs, [fd |-> fds[i],
                                              meta |-> d.meta]))

\* gob.NewDecoder: a decoder that has read no description of a type.
NewDecoder == FALSE

\* func receive(conn *net.UnixConn, msg, oob []byte, cb func(int, Meta))
\* of part_005, where rm is what conn.ReadMsgUnix hands over:
\* dec := gob.NewDecoder(bytes.NewReader(msg[:msgn])) knows no type.
gobReceive(rm) ==
    IF rm.err # Nil
    THEN [cbs |-> <<>>, err |-> IF isEOF(rm.err) THEN EOF ELSE rm.err]
    ELSE IF rm.parse # Nil
    THEN [cbs |-> <<>>, err |-> rm.parse]
    ELSE IF Len(rm.cmsgs) = 0
    THEN [cbs |-> <<>>, err |-> ErrEmptyControlMessage]
    ELSE LET rights == ParseUnixRights(rm.cmsgs[1])
         IN  IF rights.err # Nil
             THEN [cbs |-> <<>>, err |-> rights.err]
             ELSE IF Len(rights.fds) = 0
             THEN [cbs |-> <<>>, err |-> ErrEmptyFileDescriptors]
             ELSE gobReceiveLoop(rm.msg, 0, NewDecoder, rights.fds, 1,
                                 <<>>)

\* receiveAll of part_005, lines 123-131: what it returns for the error of
\* a receive that failed.
gobReceiveAllReturn(err) == IF isEOF(err) THEN Nil ELSE err

\* ---------------------------------------------------- standalone senders
ErrNotFiler == "given value does not provide *os.File getter"
ErrFile == "dup: too many open files"

\* The dynamic types of a net.Conn passed as the connection to send to.
DstKinds == {"unix", "other"}

\* What is passed to be sent: a listener or a connection that provides
\* File() and whose File() succeeds ("filer") or fails ("fileerr"), or one
\* that does not provide File() ("notfiler").
SendObjects == {"filer", "fileerr", "notfiler"}

\* The connections passed to SendConnTo as the connection to be sent: a
\* *net.UnixConn or another net.Conn, all with File().
SentConns == [kind : {"unix", "other"}, file : {"filer", "fileerr"}]

\* func (s *Server) newResponseWriter(conn net.Conn) (*response, error)
newResponseWriter(conn, cfg) ==
    IF IsUnixConn(conn)
    THEN [rw |-> newResponse(cfg.msgn, cfg.oobn), err |-> Nil]
    ELSE [rw |-> newResponse(0, 0), err |-> ErrNotUnixConn]

\* fileFrom(v): the error it returns, nil when it returns a file.
fileFrom(v) ==
    CASE v = "notfiler" -> ErrNotFiler
      [] v = "fileerr" -> ErrFile
      [] OTHER -> Nil

\* What a sender did: the value returned, the connection its writer is
\* bound to afterwards, and what its call of Write returned.
SendResult(ret, wire, wret) == [ret |-> ret, wire |-> wire, wret |-> wret]

\* return resp.Write(...): w is what the call of Write did.
ReturnWrite(w) == SendResult(w.ret, w.wire, w.ret)

\* return rw.Flush(): f is what the call of Flush did, wret what the call
\* of Write before it had returned.
ReturnFlush(f, wret) == SendResult(f.ret, f.wire, wret)

\* SendFile(resp, file, meta): return resp.Write(int(file.Fd()), meta)
SendFile(rw, wire, fd, meta, o) == ReturnWrite(Write(rw, wire, fd, meta, o))

\* SendListener(resp, ln, meta) and SendConn(resp, conn, meta): fileFrom,
\* then SendFile.
SendFiler(rw, wire, v, fd, meta, o) ==
    IF fileFrom(v) # Nil
    THEN SendResult(fileFrom(v), wire, Nil)
    ELSE SendFile(rw, wire, fd, meta, o)

\* Lines 183-184: the error of rw.Write is dropped, rw.Flush() is returned.
\* A panic of Write ends the call.
WriteThenFlush(w, o) ==
    IF w.ret = Panic THEN SendResult(Panic, w.wire, Panic)
    ELSE ReturnFlush(Flush(w.r, w.wire, o), w.ret)

\* func (s *Server) SendTo(conn, fd, meta)
SendTo(conn, wire, cfg, fd, meta, o) ==
    LET n == newResponseWriter(conn, cfg)
    IN  IF n.err # Nil THEN SendResult(n.err, wire, Nil)
        ELSE WriteThenFlush(Write(n.rw, wire, fd, meta, o), o)

\* func (s *Server) SendListenerTo(conn, ln, meta)
SendListenerTo(conn, wire, cfg, ln, fd, meta, o) ==
    LET n == newResponseWriter(conn, cfg)
    IN  IF n.err # Nil THEN SendResult(n.err, wire, Nil)
        ELSE SendFiler(n.rw, wire, ln, fd, meta, o)

\* func (s *Server) SendFileTo(conn, file, meta)
SendFileTo(conn, wire, cfg, fd, meta, o) ==
    LET n == newResponseWriter(conn, cfg)
    IN  IF n.err # Nil THEN SendResult(n.err, wire, Nil)
        ELSE SendFile(n.rw, wire, fd, meta, o)

\* Line 198: the connection SendConnTo makes its writer for, of its
\* arguments dst and conn.
WriterConn == "conn"

\* func (s *Server) SendConnTo(dst, conn, meta).  wires names the messages
\* on dst and on conn; the writer sends on the connection it was made for,
\* and the result names the messages on that connection.
SendConnTo(dst, conn, wires, cfg, fd, meta, o) ==
    LET n == newResponseWriter(IF WriterConn = "dst" THEN dst
                               ELSE conn.kind, cfg)
        w == IF WriterConn = "dst" THEN wires.dst ELSE wires.conn
    IN  IF n.err # Nil THEN SendResult(n.err, w, Nil)
        ELSE SendFiler(n.rw, w, conn.file, fd, meta, o)

\* Lines 285-286 of src/server.go: the error of rw.Write is dropped,
\* rw.Flush() is returned.
gobWriteThenFlush(w, o) == ReturnFlush(gobFlush(w.rw, w.wire, o), w.ret)

\* Send(conn, fd, meta) of src/server.go
gobSend(wire, cfg, fd, meta, o) ==
    gobWriteThenFlush(gobWrite(gobNewResponseWriter(cfg.msgn, cfg.oobn),
                               wire, fd, meta, o), o)

\* ------------------------------------------------------------- Meta
\* src/meta.go.  A Meta is a map; its keys and values are numbers here.
MetaKeys == {1, 2, 3}
MetaValues == {7, 8}
Metas == UNION {[ks -> MetaValues] : ks \in SUBSET MetaKeys}

\* The orders in which a map of these keys can be ranged over.
KeyOrders(ks) ==
    {o \in UNION {[1..n -> ks] : n \in {Cardinality(ks)}} :
        \A a, b \in 1..Cardinality(ks) : a # b => o[a] # o[b]}

\* What gob.NewEncoder(w).Encode(m) hands to w for a Meta, one message per
\* call of Write: the description of the type, then the value, which is
\* the number of entries and each key with its value, in the order ord.
GobMapMessage(m, ord) ==
    <<GobValueByte, Len(ord)>> \o
    Flatten([j \in 1..Len(ord) |-> <<ord[j], m[ord[j]]>>])
GobMessagesOf(m, ord) == <<GobTypeMessage, GobMapMessage(m, ord)>>

\* func (w *writeCounter) Write(p): the writer takes p, N grows by what it
\* took.  The writer is a bytes.Buffer, which takes all.
writeCounterWrite(wc, p) == [W |-> wc.W \o p, N |-> wc.N + Len(p)]

RECURSIVE EncodeTo(_, _)
EncodeTo(wc, msgs) ==
    IF msgs = <<>> THEN wc
    ELSE EncodeTo(writeCounterWrite(wc, Head(msgs)), Tail(msgs))

\* Line 21: return wc.N, enc.Encode(m).  Go leaves open whether the
\* operand wc.N is read before or after the call of Encode.
EvaluationOrders == {"operand first", "call first"}

\* func (m *Meta) WriteTo(w io.Writer) (int64, error)
MetaWriteTo(m, w, ord, eval) ==
    LET wc == [W |-> w, N |-> 0]
        done == EncodeTo(wc, GobMessagesOf(m, ord))
    IN  [w |-> done.W,
         n |-> IF eval = "operand first" THEN wc.N ELSE done.N,
         err |-> Nil]

\* The entries a decoder reads from p, from position pos on, count of
\* them; ok says that p held them all.
RECURSIVE DecodeEntries(_, _, _, _)
DecodeEntries(p, pos, count, m) ==
    IF count = 0 THEN [m |-> m, ok |-> pos = Len(p) + 1]
    ELSE IF pos + 1 > Len(p) THEN [m |-> m, ok |-> FALSE]
    ELSE DecodeEntries(p, pos + 2, count - 1,
                       [k \in DOMAIN m \cup {p[pos]} |->
                           IF k = p[pos] THEN p[pos + 1] ELSE m[k]])

\* gob.NewDecoder(r).Decode(&m): the description of the type, then the
\* value, whose entries are put into the map.
GobDecode(p, m) ==
    LET t == GobTypeLen
    IN  IF Len(p) < t + 2 \/ SubSeq(p, 1, t) # GobTypeMessage
           \/ p[t + 1] # GobValueByte
        THEN [m |-> m, err |-> EOF]
        ELSE LET d == DecodeEntries(p, t + 3, p[t + 2], m)
             IN  [m |-> d.m, err |-> IF d.ok THEN Nil ELSE EOF]

\* func MetaFrom(r io.Reader) (Meta, error): m := make(Meta); m.ReadFrom(r)
MetaFrom(p) == GobDecode(p, << >>)

\* ------------------------------------------------------------------- state
VARIABLES
    msgn,      \* payload capacity given to newResponse and NewClient
    oobn,      \* ancillary capacity given to newResponse and NewClient
    resp,      \* the response: fds, cap (of fds), buf, n, err
    wire,      \* the messages sent on the connection so far, in order
    closed,    \* the sending end of the connection was closed
    nwrites,   \* number of calls of response.Write made
    written,   \* the pairs whose Write returned nil, in call order
    sent,      \* the calls of WriteMsgUnix made, with what they returned
    last,      \* the last call on the response and what it returned
    rd,        \* number of messages the Client has received
    received,  \* the callbacks the Client has made, in order
    cstate,    \* the Client: "receiving" in ReceiveAllFrom, or "returned"
    cret       \* what ReceiveAllFrom returned

\* A program that calls one entry point of the client on a connection whose
\* peer is arbitrary.
VARIABLES
    centry,    \* the function called: ReceiveFrom, ReceiveAllFrom, Receive
    ckind,     \* dynamic type of the net.Conn: "unix", "other", "none"
    cpc,       \* "dialing", "receiving" or "returned"
    peer,      \* the peer's end of the connection: "open" or "closed"
    nrecv,     \* number of calls of receive made
    rcv,       \* the last call of receive: what it met and what it did
    cresult,   \* what the function called returned
    cclosed    \* Receive has closed the connection it dialed

recvVars == <<centry, ckind, cpc, peer, nrecv, rcv, cresult, cclosed>>

\* A Server in Serve on a listener, with the workers of the connections it
\* accepted.
VARIABLES
    lkind,     \* dynamic type of the net.Listener: "unix", "other", "none"
    spc,       \* Serve: "called", "accepting" or "returned"
    sret,      \* what Serve returned
    naccepted, \* number of connections accepted
    slept,     \* Serve has slept after a temporary error of AcceptUnix
    workers    \* for each accepted connection, its worker goroutine

srvVars == <<lkind, spc, sret, naccepted, slept, workers>>

\* ------------------------------------------------------------- loggers
\* The reporting operations of a Logger.
LogLevels == {"debug", "info", "error"}

\* Server.Logger unset: `Logger interface{}` holding nil.
NilLogger == [type |-> "nil"]

LogPrefixes == {"", "srv: "}

\* type StandardLogger struct { Prefix; IgnoreDebug, IgnoreInfo, IgnoreError }
StandardLoggers ==
    [type : {"StandardLogger"}, Prefix : LogPrefixes,
     IgnoreDebug : BOOLEAN, IgnoreInfo : BOOLEAN, IgnoreError : BOOLEAN]

\* The zero value StandardLogger{}.
ZeroStandardLogger ==
    [type |-> "StandardLogger", Prefix |-> "", IgnoreDebug |-> FALSE,
     IgnoreInfo |-> FALSE, IgnoreError |-> FALSE]

\* type DefaultLogger struct: the StandardLogger of the earlier server.
DefaultLoggers ==
    [type : {"DefaultLogger"}, Prefix : LogPrefixes,
     IgnoreDebug : BOOLEAN, IgnoreInfo : BOOLEAN, IgnoreError : BOOLEAN]

\* A value of the program's own that has some of the methods Debugf, Infof
\* and Errorf, and prints whatever it is given.
OwnLoggers == [type : {"own"}, Prefix : {""}, has : SUBSET LogLevels]

Loggers == {NilLogger} \cup StandardLoggers \cup DefaultLoggers \cup OwnLoggers

\* log.Print(s.Prefix, "[DEBUG] ", fmt.Sprintf(f, args...))
LogPrint(out, prefix, tag, msg) == Append(out, <<prefix, tag, msg>>)

\* func (s StandardLogger) Debugf: if !s.IgnoreDebug { log.Print(...) }
Debugf(s, out, msg) ==
    IF s.type = "own" THEN LogPrint(out, s.Prefix, "", msg)
    ELSE IF ~s.IgnoreDebug THEN LogPrint(out, s.Prefix, "[DEBUG] ", msg)
    ELSE out

\* func (s StandardLogger) Infof: if !s.IgnoreInfo { log.Print(...) }
Infof(s, out, msg) ==
    IF s.type = "own" THEN LogPrint(out, s.Prefix, "", msg)
    ELSE IF ~s.IgnoreInfo THEN LogPrint(out, s.Prefix, "[INFO] ", msg)
    ELSE out

\* func (s StandardLogger) Errorf: if s.IgnoreError { log.Print(...) }
Errorf(s, out, msg) ==
    IF s.type = "own" THEN LogPrint(out, s.Prefix, "", msg)
    ELSE IF s.IgnoreError THEN LogPrint(out, s.Prefix, "[ERROR] ", msg)
    ELSE out

\* l, ok := s.Logger.(DebugLogger) and the like: the value has the method.
HasMethod(l, level) ==
    /\ l # NilLogger
    /\ l.type = "own" => level \in l.has

\* func (s *Server) debugf(f string, args ...interface{})
debugf(l, out, msg) == IF HasMethod(l, "debug") THEN Debugf(l, out, msg) ELSE out

\* func (s *Server) infof(f string, args ...interface{})
infof(l, out, msg) == IF HasMethod(l, "info") THEN Infof(l, out, msg) ELSE out

\* func (s *Server) errorf(f string, args ...interface{})
errorf(l, out, msg) == IF HasMethod(l, "error") THEN Errorf(l, out, msg) ELSE out

\* What Serve and its workers report, by level.
DebugMessages == {"accept error; delaying", "accepted connection",
                  "closing connection"}
InfoMessages == {"sent descriptors"}
ErrorMessages == {"flush descriptors error", "panic serving connection"}

\* A program that calls the standalone senders, one call after another.
VARIABLES
    scfg,      \* the buffer sizes the senders make their writer with
    ncalls,    \* number of calls made
    dstwire,   \* the messages sent on the connection to send to
    connwire,  \* the messages sent on the connection that is being sent
    scall      \* the last call: its arguments and what it did

sndVars == <<scfg, ncalls, dstwire, connwire, scall>>

\* A program that writes a Meta to a buffer and reads it back.
VARIABLES
    meta1,     \* the Meta written
    mpc,       \* "start", "written" or "read"
    mbuf,      \* the bytes in the buffer
    mwrote,    \* what WriteTo returned: count and error
    meta2      \* what MetaFrom returned: Meta and error

metaVars == <<meta1, mpc, mbuf, mwrote, meta2>>

\* A Server that reports through its Logger.
VARIABLES
    logger,    \* Server.Logger
    nlog,      \* reports made
    lastlog,   \* level and message of the last report
    printed    \* the lines the standard `log` package has printed

logVars == <<logger, nlog, lastlog, printed>>

specVars == <<msgn, oobn, resp, wire, closed, nwrites, written, sent, last,
              rd, received, cstate, cret>>

vars == <<specVars, recvVars, srvVars, sndVars, metaVars, logVars>>

\* What the actions of one part of the model leave alone.
notSpecVars == <<recvVars, srvVars, sndVars, metaVars, logVars>>
notRecvVars == <<specVars, srvVars, sndVars, metaVars, logVars>>
notSrvVars == <<specVars, recvVars, sndVars, metaVars, logVars>>
notSndVars == <<specVars, recvVars, srvVars, metaVars, logVars>>
notMetaVars == <<specVars, recvVars, srvVars, sndVars, logVars>>
notLogVars == <<specVars, recvVars, srvVars, sndVars, metaVars>>

senderVars == <<resp, wire, closed, nwrites, written, sent, last>>
clientVars == <<rd, received, cstate, cret>>

\* The outcomes of one WriteMsgUnix.
Outcomes ==
    {[kind |-> "ok", k |-> 0], [kind |-> "fail", k |-> 0],
     [kind |-> "short", k |-> 4], [kind |-> "shortoob", k |-> 0]}

\* No call of receive made yet.
NoReceive == [rm |-> ReadResult(Nil, <<>>, Nil, <<>>),
              cb |-> NoCallbackError, cbs |-> <<>>, err |-> Nil,
              reads |-> 0]

\* No entry point of the client is called on an arbitrary peer.
RecvIdle ==
    /\ centry = "none"
    /\ ckind = "none"
    /\ cpc = "returned"
    /\ peer = "closed"
    /\ nrecv = 0
    /\ rcv = NoReceive
    /\ cresult = Nil
    /\ cclosed = FALSE

\* The worker of a connection not yet accepted.
NoWorker == [pc |-> "none", resp |-> newResponse(0, 0), wire |-> <<>>,
             hwrites |-> 0, panicked |-> FALSE, flushes |-> 0,
             flushret |-> Nil, closes |-> 0, log |-> <<>>]

\* No Server is serving.
ServeIdle ==
    /\ lkind = "none"
    /\ spc = "returned"
    /\ sret = Nil
    /\ naccepted = 0
    /\ slept = FALSE
    /\ workers = [i \in 1..MaxConns |-> NoWorker]

\* No program uses a Meta.
MetaIdle ==
    /\ meta1 = << >>
    /\ mpc = "read"
    /\ mbuf = <<>>
    /\ mwrote = [n |-> 0, err |-> Nil]
    /\ meta2 = [m |-> << >>, err |-> Nil]

\* No report made yet.
NoReport == [level |-> "none", msg |-> ""]

\* No Server reports anything.
LogIdle ==
    /\ logger = NilLogger
    /\ nlog = 0
    /\ lastlog = NoReport
    /\ printed = <<>>

\* No call of a standalone sender made yet.
NoSend == [fn |-> "none", dst |-> "none", obj |-> "none",
           conn |-> "none", fd |-> 0,
           metaLen |-> 0, metaErr |-> Nil, tooLarge |-> FALSE,
           wret |-> Nil, ret |-> Nil, emitted |-> 0, emittedConn |-> 0]

\* No program calls the standalone senders.
SendIdle ==
    /\ scfg = [msgn |-> 0, oobn |-> 0]
    /\ ncalls = 0
    /\ dstwire = <<>>
    /\ connwire = <<>>
    /\ scall = NoSend

NoCall == [op |-> "none", ret |-> Nil, flushes |-> 0, sends |-> 0,
           writeTos |-> 0, metaLen |-> 0]

Init ==
    /\ msgn \in MsgSizes
    /\ oobn \in OobSizes
    /\ resp = newResponse(msgn, oobn)
    /\ wire = <<>>
    /\ closed = FALSE
    /\ nwrites = 0
    /\ written = <<>>
    /\ sent = <<>>
    /\ last = NoCall
    /\ rd = 0
    /\ received = <<>>
    /\ cstate = "receiving"
    /\ cret = Nil
    /\ RecvIdle
    /\ ServeIdle
    /\ SendIdle
    /\ MetaIdle
    /\ LogIdle

\* The descriptor of the k-th Write call (each call passes another file).
FdOf(k) == 3 + k

\* The metadata bytes a source stands for when written with descriptor fd.
MetaOf(fd, meta) == MetaBytes(fd, SumSeq(meta.chunks))

\* The owner of the response calls resp.Write(fd, meta).
DoWrite(meta, o) ==
    /\ ~closed
    /\ nwrites < MaxWrites
    /\ LET fd == FdOf(nwrites)
           res == Write(resp, wire, fd, meta, o)
       IN  /\ resp' = res.r
           /\ wire' = res.wire
           /\ written' = IF res.ret = Nil
                         THEN Append(written,
                                     [fd |-> fd, meta |-> MetaOf(fd, meta)])
                         ELSE written
           /\ sent' = sent \o res.sent
           /\ last' = [op |-> "Write", ret |-> res.ret,
                       flushes |-> res.flushes, sends |-> Len(res.sent),
                       writeTos |-> res.writeTos,
                       metaLen |-> SumSeq(meta.chunks)]
    /\ nwrites' = nwrites + 1
    /\ UNCHANGED <<msgn, oobn, closed, clientVars, notSpecVars>>

\* The owner of the response calls resp.Flush().
DoFlush(o) ==
    /\ ~closed
    /\ LET res == Flush(resp, wire, o)
       IN  /\ resp' = res.r
           /\ wire' = res.wire
           /\ sent' = sent \o res.sent
           /\ last' = [op |-> "Flush", ret |-> res.ret, flushes |-> 1,
                       sends |-> Len(res.sent), writeTos |-> 0,
                       metaLen |-> 0]
    /\ UNCHANGED <<msgn, oobn, closed, nwrites, written, clientVars,
                   notSpecVars>>

\* The owner closes the connection and uses the response no more.
Close ==
    /\ ~closed
    /\ closed' = TRUE
    /\ UNCHANGED <<msgn, oobn, resp, wire, nwrites, written, sent, last,
                   clientVars, notSpecVars>>

\* Client.ReceiveAllFrom, one round of its loop: a call of receive on the
\* next message, or on the end of the stream once the peer has closed.
ClientReceive ==
    /\ cstate = "receiving"
    /\ \/ /\ rd < Len(wire)
          /\ LET res == receive("unix",
                                 ReadMsgUnix(wire[rd + 1], msgn, oobn),
                                 NoCallbackError)
             IN  /\ received' = received \o res.cbs
                 /\ IF res.err = Nil
                    THEN UNCHANGED <<cstate, cret>>
                    ELSE /\ cstate' = "returned"
                         /\ cret' = ReceiveAllFromReturn(res.err)
          /\ rd' = rd + 1
       \/ /\ rd = Len(wire)
          /\ closed
          /\ cstate' = "returned"
          /\ cret' = Nil
          /\ UNCHANGED <<rd, received>>
    /\ UNCHANGED <<msgn, oobn, senderVars, notSpecVars>>

Next ==
    \/ \E meta \in Sources, o \in Outcomes : DoWrite(meta, o)
    \/ \E o \in Outcomes : DoFlush(o)
    \/ Close
    \/ ClientReceive

Spec == Init /\ [][Next]_vars

\* ------------------------------------------- the client and an arbitrary peer
\* The response and its reader are not in use.
SpecIdle ==
    /\ msgn = 0
    /\ oobn = 0
    /\ resp = newResponse(0, 0)
    /\ wire = <<>>
    /\ closed = TRUE
    /\ nwrites = 0
    /\ written = <<>>
    /\ sent = <<>>
    /\ last = NoCall
    /\ rd = 0
    /\ received = <<>>
    /\ cstate = "returned"
    /\ cret = Nil

\* One SCM_RIGHTS control message with the descriptors fds.
RightsOf(fds) == [rights |-> TRUE, fds |-> fds]

PeerFds(k) == [i \in 1..k |-> FdOf(i - 1)]

\* A payload with one frame for each descriptor, of metadata lengths ls.
PeerPayload(ls) ==
    Flatten([i \in 1..Len(ls) |-> FrameOf(FdOf(i - 1), ls[i])])

Prefixes(s) == {SubSeq(s, 1, k) : k \in 0..Len(s)}

\* The metadata lengths of the frames of a peer: none, and some that a
\* callback can read in part.
PeerMetaLens == {0, 2}

\* The payloads a peer may send with k descriptors: one frame for each, or
\* such a payload cut short anywhere.
PeerPayloads(k) ==
    UNION {Prefixes(PeerPayload(ls)) : ls \in [1..k -> PeerMetaLens]}

\* What ReadMsgUnix may hand over when it returns no error: descriptors in
\* one SCM_RIGHTS control message with a whole or a cut payload; no control
\* message; a control message without descriptors; a control message of
\* another type; two control messages; ancillary data that do not parse.
PeerMessages ==
    UNION {{ReadResult(Nil, pl, Nil, << RightsOf(PeerFds(k)) >>) :
                pl \in PeerPayloads(k)} : k \in 1..MaxFds}
    \cup {ReadResult(Nil, PeerPayload(<<0>>), Nil, c) :
             c \in { <<>>, << RightsOf(<<>>) >>,
                     << [rights |-> FALSE, fds |-> <<>>] >>,
                     << RightsOf(PeerFds(1)), RightsOf(<<FdOf(1)>>) >> }}
    \cup {ReadResult(Nil, PeerPayload(<<0>>), EINVAL, <<>>)}

\* ReadMsgUnix fails; ReadMsgUnix meets the end of the stream.
ReadFailure == ReadResult(ErrRead, <<>>, Nil, <<>>)
EndOfStream == ReadResult(OpErrorEOF, <<>>, Nil, <<>>)

ReadResults == PeerMessages \cup {ReadFailure, EndOfStream, NoReceive.rm}

\* The descriptors for which receive may call the callback.
NumFds(rm) ==
    IF rm.err = Nil /\ rm.parse = Nil /\ rm.cmsgs # <<>>
       /\ rm.cmsgs[1].rights
    THEN Len(rm.cmsgs[1].fds) ELSE 0

\* The callbacks a caller may pass: one that never fails, or one that
\* returns an error of its own, or io.EOF, for one of the descriptors.
Callbacks(rm) ==
    {[NoCallbackError EXCEPT !.take = t] : t \in {"all", "part", "none"}}
    \cup {[at |-> i, err |-> e, take |-> "all"] :
             i \in 1..NumFds(rm), e \in {ErrCallback, EOF}}

EntryPoints == {"ReceiveFrom", "ReceiveAllFrom", "Receive"}

\* A program calls one of the entry points.
RecvStart ==
    /\ centry \in EntryPoints
    /\ IF centry = "Receive"
       THEN ckind = "none" /\ cpc = "dialing"
       ELSE ckind \in {"unix", "other"} /\ cpc = "receiving"
    /\ peer = "open"
    /\ nrecv = 0
    /\ rcv = NoReceive
    /\ cresult = Nil
    /\ cclosed = FALSE

InitRecv ==
    /\ SpecIdle
    /\ ServeIdle
    /\ SendIdle
    /\ MetaIdle
    /\ LogIdle
    /\ RecvStart

\* Client.Receive, lines 81-85: net.Dial("unix", addr) gives a
\* *net.UnixConn or an error, which Receive returns.
Dial(ok) ==
    /\ centry = "Receive"
    /\ cpc = "dialing"
    /\ IF ok
       THEN /\ ckind' = "unix"
            /\ cpc' = "receiving"
            /\ UNCHANGED cresult
       ELSE /\ cpc' = "returned"
            /\ cresult' = ErrDial
            /\ UNCHANGED ckind
    /\ UNCHANGED <<centry, peer, nrecv, rcv, cclosed, notRecvVars>>

\* One call of receive: the only one of ReceiveFrom, or one round of the
\* loop of ReceiveAllFrom (which Receive runs, closing the connection when
\* it returns).  On a *net.UnixConn the call reads what the peer sent, or
\* the end of the stream once the peer has closed; it waits while the peer
\* is silent.
CallReceive(rm, cb) ==
    /\ cpc = "receiving"
    /\ IF ckind = "unix"
       THEN \/ /\ peer = "open"
               /\ nrecv < MaxReceives
               /\ rm \in PeerMessages \cup {ReadFailure}
            \/ /\ peer = "closed"
               /\ rm = EndOfStream
       ELSE rm = NoReceive.rm
    /\ LET res == receive(ckind, rm, cb)
       IN  /\ rcv' = [rm |-> rm, cb |-> cb, cbs |-> res.cbs,
                      err |-> res.err, reads |-> res.reads]
           /\ IF centry = "ReceiveFrom"
              THEN /\ cpc' = "returned"
                   /\ cresult' = res.err
                   /\ UNCHANGED cclosed
              ELSE IF res.err = Nil
              THEN UNCHANGED <<cpc, cresult, cclosed>>
              ELSE /\ cpc' = "returned"
                   /\ cresult' = ReceiveAllFromReturn(res.err)
                   /\ cclosed' = (centry = "Receive")
    /\ nrecv' = nrecv + 1
    /\ UNCHANGED <<centry, ckind, peer, notRecvVars>>

\* The peer closes its end of the connection.
PeerClose ==
    /\ peer = "open"
    /\ peer' = "closed"
    /\ UNCHANGED <<centry, ckind, cpc, nrecv, rcv, cresult, cclosed,
                   notRecvVars>>

ReceiveStep == \E rm \in ReadResults : \E cb \in Callbacks(rm) :
                   CallReceive(rm, cb)

NextRecv ==
    \/ \E ok \in BOOLEAN : Dial(ok)
    \/ \E rm \in ReadResults : \E cb \in Callbacks(rm) : CallReceive(rm, cb)
    \/ PeerClose

SpecRecv == InitRecv /\ [][NextRecv]_vars

\* The calls return and the peer, as the claim about termination assumes,
\* closes the connection at some time.
SpecRecvFair ==
    /\ SpecRecv
    /\ WF_vars(\E ok \in BOOLEAN : Dial(ok))
    /\ WF_vars(ReceiveStep)
    /\ WF_vars(PeerClose)

\* ------------------------------------------------------------------ Server
ErrAcceptTemporary == "accept unix: too many open files"
ErrAccept == "accept unix: use of closed network connection"

\* The buffer sizes of the Server (fields MsgBufferSize, OOBBufferSize).
ServerSizes == [msgn |-> 9, oobn |-> 48]

\* The metadata a handler passes to Write: none.
HandlerSources == {NilMeta}

\* The outcomes of a send of a worker: the message is queued, or not.
WorkerOutcomes == {o \in Outcomes : o.kind \in {"ok", "fail"}}

\* The descriptor a handler passes in its k-th Write on connection i.
HandlerFd(i, k) == 10 * i + k

\* A program calls Serve on a listener.
ServeStart ==
    /\ lkind \in {"unix", "other"}
    /\ spc = "called"
    /\ sret = Nil
    /\ naccepted = 0
    /\ slept = FALSE
    /\ workers = [i \in 1..MaxConns |-> NoWorker]

InitServe ==
    /\ SpecIdle
    /\ RecvIdle
    /\ SendIdle
    /\ MetaIdle
    /\ LogIdle
    /\ ServeStart

\* Line 133: ln, ok := l.(*net.UnixListener)
IsUnixListener(l) == l = "unix"

\* Server.Serve, lines 133-136: a listener that is not a *net.UnixListener
\* is refused before the accept loop.
ServeEnter ==
    /\ spc = "called"
    /\ IF IsUnixListener(lkind)
       THEN spc' = "accepting" /\ UNCHANGED sret
       ELSE spc' = "returned" /\ sret' = ErrNotUnixListener
    /\ UNCHANGED <<lkind, naccepted, slept, workers, notSrvVars>>

\* Line 138: what ln.AcceptUnix() returns: a connection, or an error that
\* is a net.Error reporting itself temporary, or another error.
AcceptUnix(outcome) ==
    CASE outcome = "conn" -> [err |-> Nil, temporary |-> FALSE]
      [] outcome = "temporary" -> [err |-> ErrAcceptTemporary,
                                   temporary |-> TRUE]
      [] OTHER -> [err |-> ErrAccept, temporary |-> FALSE]

\* Line 139: terr, ok := err.(net.Error); ok && terr.Temporary()
IsTemporaryNever(a) == FALSE
IsTemporary(a) == a.err # Nil /\ a.temporary

\* Lines 144-146, `return err`: Serve leaves its loop; the goroutines it has
\* started are not joined and go on as they are.
GoroutinesEndAtReturn(ws) ==
    [i \in DOMAIN ws |->
        IF ws[i].pc \in {"none", "terminated"} THEN ws[i]
        ELSE [ws[i] EXCEPT !.pc = "killed"]]
GoroutinesAtReturn(ws) == ws

\* Server.Serve, lines 137-175, one round of the accept loop: AcceptUnix
\* returns a temporary error, after which the loop sleeps and goes on; or
\* another error, which Serve returns; or a connection, for which a
\* goroutine is started.
Accept(outcome) ==
    /\ spc = "accepting"
    /\ LET a == AcceptUnix(outcome)
       IN  IF IsTemporary(a)
           THEN /\ slept' = TRUE
                /\ UNCHANGED <<spc, sret, naccepted, workers>>
           ELSE IF a.err # Nil
           THEN /\ spc' = "returned"
                /\ sret' = a.err
                /\ workers' = GoroutinesAtReturn(workers)
                /\ UNCHANGED <<naccepted, slept>>
           ELSE /\ naccepted < MaxConns
                /\ naccepted' = naccepted + 1
                /\ workers' = [workers EXCEPT
                                  ![naccepted + 1].pc = "started"]
                /\ UNCHANGED <<spc, sret, slept>>
    /\ UNCHANGED <<lkind, notSrvVars>>

\* Line 165: resp, _ := s.newResponseWriter(conn), a response of its own
\* for the connection, with the sizes of the Server.
WorkerResponseShared(i) ==
    IF i > 1 THEN workers[1].resp
    ELSE newResponse(ServerSizes.msgn, ServerSizes.oobn)
WorkerResponse(i) == newResponse(ServerSizes.msgn, ServerSizes.oobn)

\* The goroutine, lines 162-166: the response of the connection is made
\* and the handler is called with it.
WorkerStart(i) ==
    /\ workers[i].pc = "started"
    /\ workers' = [workers EXCEPT
                      ![i].pc = "handling",
                      ![i].resp = WorkerResponse(i)]
    /\ UNCHANGED <<lkind, spc, sret, naccepted, slept, notSrvVars>>

\* The handler calls resp.Write(fd, meta).  A Write that panics makes the
\* handler panic.
HandlerWrite(i, meta, o) ==
    /\ workers[i].pc = "handling"
    /\ workers[i].hwrites < MaxHandlerWrites
    /\ LET w == workers[i]
           res == Write(w.resp, w.wire, HandlerFd(i, w.hwrites), meta, o)
       IN  workers' = [workers EXCEPT
                          ![i].resp = res.r,
                          ![i].wire = res.wire,
                          ![i].hwrites = w.hwrites + 1,
                          ![i].pc = IF res.ret = Panic THEN "panicking"
                                    ELSE "handling",
                          ![i].panicked = (res.ret = Panic)]
    /\ UNCHANGED <<lkind, spc, sret, naccepted, slept, notSrvVars>>

\* Line 165: after Handle has returned the goroutine goes on to
\* resp.Flush().
AfterHandleSkipsFlush == "deferred"
AfterHandle == "returned"

\* s.Handler.Handle(conn, resp) returns.
HandlerReturn(i) ==
    /\ workers[i].pc = "handling"
    /\ workers' = [workers EXCEPT ![i].pc = AfterHandle]
    /\ UNCHANGED <<lkind, spc, sret, naccepted, slept, notSrvVars>>

\* s.Handler.Handle(conn, resp) panics: the goroutine unwinds to its
\* deferred function, past the call of resp.Flush.
HandlerPanic(i) ==
    /\ workers[i].pc = "handling"
    /\ workers' = [workers EXCEPT ![i].pc = "panicking",
                                  ![i].panicked = TRUE]
    /\ UNCHANGED <<lkind, spc, sret, naccepted, slept, notSrvVars>>

\* Lines 165-172, after the handler has returned: resp.Flush(), and the
\* log of what it returned.
WorkerFlush(i, o) ==
    /\ workers[i].pc = "returned"
    /\ LET w == workers[i]
           res == Flush(w.resp, w.wire, o)
       IN  workers' = [workers EXCEPT
                          ![i].resp = res.r,
                          ![i].wire = res.wire,
                          ![i].flushes = w.flushes + 1,
                          ![i].flushret = res.ret,
                          ![i].log = Append(w.log,
                               IF res.ret # Nil THEN "error: flush"
                               ELSE "info: flush"),
                          ![i].pc = "deferred"]
    /\ UNCHANGED <<lkind, spc, sret, naccepted, slept, notSrvVars>>

\* Line 152: the deferred function runs when the goroutine's function has
\* come to its end or is panicking.
DeferredRunsUnlessPanicking(w) == w.pc = "deferred"
DeferredRuns(w) == w.pc \in {"deferred", "panicking"}

\* Line 153: recover() returns the value of the panic, and stops it, when
\* the goroutine is panicking; it returns nil when it is not.
RecoverNever(w) == FALSE
Recover(w) == w.panicked

\* Lines 152-161, the deferred function: recover from a panic and log it,
\* then close the connection; the goroutine ends.  A panic that is not
\* recovered goes on when the deferred function has returned and ends the
\* program, the accept loop and every other goroutine with it.
WorkerClose(i) ==
    /\ DeferredRuns(workers[i])
    /\ LET w == workers[i]
           rec == Recover(w)
           closed_ == [w EXCEPT
                          !.log = (IF rec THEN Append(w.log, "error: panic")
                                   ELSE w.log) \o <<"debug: closing">>,
                          !.closes = w.closes + 1,
                          !.pc = "terminated"]
       IN  IF w.panicked /\ ~rec
           THEN /\ workers' = [j \in 1..MaxConns |->
                                  IF j = i THEN closed_
                                  ELSE [workers[j] EXCEPT !.pc = "killed"]]
                /\ spc' = "crashed"
           ELSE /\ workers' = [workers EXCEPT ![i] = closed_]
                /\ spc' = spc
    /\ UNCHANGED <<lkind, sret, naccepted, slept, notSrvVars>>

WorkerStep(i) ==
    \/ WorkerStart(i)
    \/ \E o \in WorkerOutcomes : WorkerFlush(i, o)
    \/ WorkerClose(i)

NextServe ==
    \/ ServeEnter
    \/ \E outcome \in {"conn", "temporary", "error"} : Accept(outcome)
    \/ \E i \in 1..MaxConns : WorkerStart(i)
    \/ \E i \in 1..MaxConns : \E meta \in HandlerSources :
           \E o \in WorkerOutcomes : HandlerWrite(i, meta, o)
    \/ \E i \in 1..MaxConns : HandlerReturn(i)
    \/ \E i \in 1..MaxConns : HandlerPanic(i)
    \/ \E i \in 1..MaxConns : \E o \in WorkerOutcomes : WorkerFlush(i, o)
    \/ \E i \in 1..MaxConns : WorkerClose(i)

SpecServe == InitServe /\ [][NextServe]_vars

\* The scheduler runs every goroutine that can take a step of its own, and
\* a send returns; the handler is not required to return.
SpecServeFair ==
    /\ SpecServe
    /\ WF_vars(ServeEnter)
    /\ \A i \in 1..MaxConns : WF_vars(WorkerStep(i))

\* ------------------------------------- a program that calls the senders
SendStart ==
    /\ scfg \in [msgn : MsgSizes, oobn : OobSizes]
    /\ ncalls = 0
    /\ dstwire = <<>>
    /\ connwire = <<>>
    /\ scall = NoSend

InitSend ==
    /\ SpecIdle
    /\ RecvIdle
    /\ ServeIdle
    /\ MetaIdle
    /\ LogIdle
    /\ SendStart

\* The descriptor of the file, listener or connection the k-th call sends.
SendFd(k) == FdOf(k)

\* The metadata of a source does not fit the payload buffer, even empty.
TooLarge(meta) == SumSeq(meta.chunks) + msgHeaderSize > scfg.msgn
GobTooLarge(meta) == GobTypeLen + 1 + meta.vlen > scfg.msgn

SourceInfo(meta) == [len |-> SumSeq(meta.chunks), err |-> meta.err]
GobInfo(meta) == [len |-> meta.vlen, err |-> meta.err]

\* The call fn returns: r is what it did, on the connection dst when onDst
\* and else on the connection that was to be sent; scall keeps the call.
Returns(fn, dst, obj, conn, meta, tooLarge, onDst, r) ==
    /\ dstwire' = IF onDst THEN r.wire ELSE dstwire
    /\ connwire' = IF onDst THEN connwire ELSE r.wire
    /\ scall' = [fn |-> fn, dst |-> dst, obj |-> obj, conn |-> conn,
                 fd |-> SendFd(ncalls), metaLen |-> meta.len,
                 metaErr |-> meta.err, tooLarge |-> tooLarge,
                 wret |-> r.wret, ret |-> r.ret,
                 emitted |-> IF onDst THEN Len(r.wire) - Len(dstwire)
                             ELSE 0,
                 emittedConn |-> IF onDst THEN 0
                                 ELSE Len(r.wire) - Len(connwire)]
    /\ ncalls' = ncalls + 1
    /\ UNCHANGED <<scfg, notSndVars>>

CallSendTo(dst, meta, o) ==
    /\ ncalls < MaxSends
    /\ Returns("SendTo", dst, "fd", "none", SourceInfo(meta), TooLarge(meta),
               TRUE, SendTo(dst, dstwire, scfg, SendFd(ncalls), meta, o))

CallSendFileTo(dst, meta, o) ==
    /\ ncalls < MaxSends
    /\ Returns("SendFileTo", dst, "file", "none", SourceInfo(meta),
               TooLarge(meta), TRUE,
               SendFileTo(dst, dstwire, scfg, SendFd(ncalls), meta, o))

CallSendListenerTo(dst, ln, meta, o) ==
    /\ ncalls < MaxSends
    /\ Returns("SendListenerTo", dst, ln, "none", SourceInfo(meta),
               TooLarge(meta), TRUE,
               SendListenerTo(dst, dstwire, scfg, ln, SendFd(ncalls), meta, o))

CallSendConnTo(dst, conn, meta, o) ==
    /\ ncalls < MaxSends
    /\ Returns("SendConnTo", dst, conn.file, conn.kind, SourceInfo(meta),
               TooLarge(meta), WriterConn = "dst",
               SendConnTo(dst, conn, [dst |-> dstwire, conn |-> connwire],
                          scfg, SendFd(ncalls), meta, o))

\* Send of the gob era takes a *net.UnixConn.
CallSend(meta, o) ==
    /\ ncalls < MaxSends
    /\ Returns("Send", "unix", "fd", "none", GobInfo(meta), GobTooLarge(meta),
               TRUE, gobSend(dstwire, scfg, SendFd(ncalls), meta, o))

NextSend ==
    \/ \E dst \in DstKinds, meta \in Sources, o \in Outcomes :
           CallSendTo(dst, meta, o)
    \/ \E dst \in DstKinds, meta \in Sources, o \in Outcomes :
           CallSendFileTo(dst, meta, o)
    \/ \E dst \in DstKinds, ln \in SendObjects, meta \in Sources,
          o \in Outcomes : CallSendListenerTo(dst, ln, meta, o)
    \/ \E dst \in DstKinds, conn \in SentConns, meta \in Sources,
          o \in Outcomes : CallSendConnTo(dst, conn, meta, o)
    \/ \E meta \in GobMetas, o \in Outcomes : CallSend(meta, o)

SpecSend == InitSend /\ [][NextSend]_vars

\* ------------------------------------------- the Server of the gob era
\* src/server.go.  Serve takes a *net.UnixListener; the state of Serve and
\* of its workers is kept in the variables of the Server.

\* The metadata a handler passes to Write.
GobHandlerMetas == {[vlen |-> 1, err |-> Nil]}

\* A program calls Serve of src/server.go.
gobServeStart ==
    /\ lkind = "unix"
    /\ spc = "accepting"
    /\ sret = Nil
    /\ naccepted = 0
    /\ slept = FALSE
    /\ workers = [i \in 1..MaxConns |-> NoWorker]

InitGobServe ==
    /\ SpecIdle
    /\ RecvIdle
    /\ SendIdle
    /\ MetaIdle
    /\ LogIdle
    /\ gobServeStart

\* Serve, lines 107-121, one round of the accept loop.
gobAccept(outcome) ==
    /\ spc = "accepting"
    /\ LET a == AcceptUnix(outcome)
       IN  IF IsTemporary(a)
           THEN /\ slept' = TRUE
                /\ UNCHANGED <<spc, sret, naccepted, workers>>
           ELSE IF a.err # Nil
           THEN /\ spc' = "returned"
                /\ sret' = a.err
                /\ workers' = GoroutinesAtReturn(workers)
                /\ UNCHANGED <<naccepted, slept>>
           ELSE /\ naccepted < MaxConns
                /\ naccepted' = naccepted + 1
                /\ workers' = [workers EXCEPT
                                  ![naccepted + 1].pc = "started"]
                /\ UNCHANGED <<spc, sret, slept>>
    /\ UNCHANGED <<lkind, notSrvVars>>

\* The goroutine, lines 131-135: the writer of the connection is made and
\* the handler is called with it.
gobWorkerStart(i) ==
    /\ workers[i].pc = "started"
    /\ workers' = [workers EXCEPT
                      ![i].pc = "handling",
                      ![i].resp = gobNewResponseWriter(ServerSizes.msgn,
                                                       ServerSizes.oobn)]
    /\ UNCHANGED <<lkind, spc, sret, naccepted, slept, notSrvVars>>

\* The handler calls rw.Write(fd, meta).
gobHandlerWrite(i, meta, o) ==
    /\ workers[i].pc = "handling"
    /\ workers[i].hwrites < MaxHandlerWrites
    /\ LET w == workers[i]
           res == gobWrite(w.resp, w.wire, HandlerFd(i, w.hwrites), meta, o)
       IN  workers' = [workers EXCEPT
                          ![i].resp = res.rw,
                          ![i].wire = res.wire,
                          ![i].hwrites = w.hwrites + 1]
    /\ UNCHANGED <<lkind, spc, sret, naccepted, slept, notSrvVars>>

\* s.Handler.Handle(conn, resp) returns.
gobHandlerReturn(i) ==
    /\ workers[i].pc = "handling"
    /\ workers' = [workers EXCEPT ![i].pc = "returned"]
    /\ UNCHANGED <<lkind, spc, sret, naccepted, slept, notSrvVars>>

\* s.Handler.Handle(conn, resp) panics: the goroutine unwinds to its
\* deferred function, past resp.Flush() and conn.Close().
gobHandlerPanic(i) ==
    /\ workers[i].pc = "handling"
    /\ workers' = [workers EXCEPT ![i].pc = "panicking",
                                  ![i].panicked = TRUE]
    /\ UNCHANGED <<lkind, spc, sret, naccepted, slept, notSrvVars>>

\* Lines 137-141, after the handler has returned: resp.Flush(), and the
\* log of what it returned.
gobWorkerFlush(i, o) ==
    /\ workers[i].pc = "returned"
    /\ LET w == workers[i]
           res == gobFlush(w.resp, w.wire, o)
       IN  workers' = [workers EXCEPT
                          ![i].resp = res.rw,
                          ![i].wire = res.wire,
                          ![i].flushes = w.flushes + 1,
                          ![i].flushret = res.ret,
                          ![i].log = Append(w.log,
                               IF res.ret # Nil THEN "error: flush"
                               ELSE "info: flush"),
                          ![i].pc = "flushed"]
    /\ UNCHANGED <<lkind, spc, sret, naccepted, slept, notSrvVars>>

\* Lines 143-144, the last statements of the goroutine's function:
\* s.debugf("closing connection"), conn.Close().
gobWorkerClose(i) ==
    /\ workers[i].pc = "flushed"
    /\ workers' = [workers EXCEPT
                      ![i].log = Append(workers[i].log, "debug: closing"),
                      ![i].closes = workers[i].closes + 1,
                      ![i].pc = "deferred"]
    /\ UNCHANGED <<lkind, spc, sret, naccepted, slept, notSrvVars>>

\* Lines 124-131, the deferred function: recover from a panic and log it;
\* the goroutine ends.
gobWorkerDeferred(i) ==
    /\ DeferredRuns(workers[i])
    /\ LET w == workers[i]
       IN  workers' = [workers EXCEPT
                          ![i].log = IF Recover(w)
                                     THEN Append(w.log, "error: panic")
                                     ELSE w.log,
                          ![i].pc = "terminated"]
    /\ UNCHANGED <<lkind, spc, sret, naccepted, slept, notSrvVars>>

NextGobServe ==
    \/ \E outcome \in {"conn", "temporary", "error"} : gobAccept(outcome)
    \/ \E i \in 1..MaxConns : gobWorkerStart(i)
    \/ \E i \in 1..MaxConns : \E meta \in GobHandlerMetas :
           \E o \in WorkerOutcomes : gobHandlerWrite(i, meta, o)
    \/ \E i \in 1..MaxConns : gobHandlerReturn(i)
    \/ \E i \in 1..MaxConns : gobHandlerPanic(i)
    \/ \E i \in 1..MaxConns : \E o \in WorkerOutcomes : gobWorkerFlush(i, o)
    \/ \E i \in 1..MaxConns : gobWorkerClose(i)
    \/ \E i \in 1..MaxConns : gobWorkerDeferred(i)

SpecGobServe == InitGobServe /\ [][NextGobServe]_vars

\* ------------------------------- writer and client of the gob era
\* A program writes pairs to a responseWriter of src/server.go, flushes and
\* closes; a client runs receiveAll of part_005 on the other end.  The
\* writer, the connection and the client are kept in the variables of the
\* sender and the client.
GobMsgSizes == {5, 9}

InitGob ==
    /\ msgn \in GobMsgSizes
    /\ oobn \in OobSizes
    /\ resp = gobNewResponseWriter(msgn, oobn)
    /\ wire = <<>>
    /\ closed = FALSE
    /\ nwrites = 0
    /\ written = <<>>
    /\ sent = <<>>
    /\ last = NoCall
    /\ rd = 0
    /\ received = <<>>
    /\ cstate = "receiving"
    /\ cret = Nil
    /\ RecvIdle
    /\ ServeIdle
    /\ SendIdle
    /\ MetaIdle
    /\ LogIdle

\* The owner of the writer calls rw.Write(fd, meta).
gobDoWrite(meta, o) ==
    /\ ~closed
    /\ nwrites < MaxWrites
    /\ LET fd == FdOf(nwrites)
           res == gobWrite(resp, wire, fd, meta, o)
       IN  /\ resp' = res.rw
           /\ wire' = res.wire
           /\ written' = IF res.ret = Nil
                         THEN Append(written,
                                     [fd |-> fd,
                                      meta |-> MetaBytes(fd, meta.vlen)])
                         ELSE written
           /\ last' = [NoCall EXCEPT !.op = "Write", !.ret = res.ret,
                                     !.sends = Len(res.wire) - Len(wire),
                                     !.metaLen = meta.vlen]
    /\ nwrites' = nwrites + 1
    /\ UNCHANGED <<msgn, oobn, closed, sent, clientVars, notSpecVars>>

\* The owner of the writer calls rw.Flush().
gobDoFlush(o) ==
    /\ ~closed
    /\ LET res == gobFlush(resp, wire, o)
       IN  /\ resp' = res.rw
           /\ wire' = res.wire
           /\ last' = [NoCall EXCEPT !.op = "Flush", !.ret = res.ret,
                                     !.sends = Len(res.wire) - Len(wire)]
    /\ UNCHANGED <<msgn, oobn, closed, nwrites, written, sent, clientVars,
                   notSpecVars>>

\* The owner closes the connection and uses the writer no more.
gobDoClose ==
    /\ ~closed
    /\ closed' = TRUE
    /\ UNCHANGED <<msgn, oobn, resp, wire, nwrites, written, sent, last,
                   clientVars, notSpecVars>>

\* receiveAll, one round of its loop: a call of receive on the next
\* message, or on the end of the stream once the peer has closed.
gobClientReceive ==
    /\ cstate = "receiving"
    /\ \/ /\ rd < Len(wire)
          /\ LET res == gobReceive(ReadMsgUnix(wire[rd + 1], msgn, oobn))
             IN  /\ received' = received \o res.cbs
                 /\ IF res.err = Nil
                    THEN UNCHANGED <<cstate, cret>>
                    ELSE /\ cstate' = "returned"
                         /\ cret' = gobReceiveAllReturn(res.err)
          /\ rd' = rd + 1
       \/ /\ rd = Len(wire)
          /\ closed
          /\ cstate' = "returned"
          /\ cret' = gobReceiveAllReturn(gobReceive(EndOfStream).err)
          /\ UNCHANGED <<rd, received>>
    /\ UNCHANGED <<msgn, oobn, senderVars, notSpecVars>>

NextGob ==
    \/ \E meta \in GobMetas, o \in Outcomes : gobDoWrite(meta, o)
    \/ \E o \in Outcomes : gobDoFlush(o)
    \/ gobDoClose
    \/ gobClientReceive

SpecGob == InitGob /\ [][NextGob]_vars

\* ----------------------------------- a program that writes and reads a Meta
MetaStart ==
    /\ meta1 \in Metas
    /\ mpc = "start"
    /\ mbuf = <<>>
    /\ mwrote = [n |-> 0, err |-> Nil]
    /\ meta2 = [m |-> << >>, err |-> Nil]

InitMeta ==
    /\ SpecIdle
    /\ RecvIdle
    /\ ServeIdle
    /\ SendIdle
    /\ MetaStart
    /\ LogIdle

\* n, err := m1.WriteTo(buf) on an empty bytes.Buffer.
CallWriteTo(eval) ==
    /\ mpc = "start"
    /\ \E ord \in KeyOrders(DOMAIN meta1) :
          LET r == MetaWriteTo(meta1, mbuf, ord, eval)
          IN  /\ mbuf' = r.w
              /\ mwrote' = [n |-> r.n, err |-> r.err]
    /\ mpc' = "written"
    /\ UNCHANGED <<meta1, meta2, notMetaVars>>

\* m2, err := MetaFrom(buf)
CallMetaFrom ==
    /\ mpc = "written"
    /\ meta2' = MetaFrom(mbuf)
    /\ mpc' = "read"
    /\ UNCHANGED <<meta1, mbuf, mwrote, notMetaVars>>

NextMeta ==
    \/ \E eval \in EvaluationOrders : CallWriteTo(eval)
    \/ CallMetaFrom

SpecMeta == InitMeta /\ [][NextMeta]_vars

\* ------------------------------------- a Server reporting through a Logger
LogStart ==
    /\ logger \in Loggers
    /\ nlog = 0
    /\ lastlog = NoReport
    /\ printed = <<>>

InitLog ==
    /\ SpecIdle
    /\ RecvIdle
    /\ ServeIdle
    /\ SendIdle
    /\ MetaIdle
    /\ LogStart

\* s.debugf(...) in Serve and its workers.
ServerDebugf(msg) ==
    /\ nlog < MaxReports
    /\ nlog' = nlog + 1
    /\ lastlog' = [level |-> "debug", msg |-> msg]
    /\ printed' = debugf(logger, printed, msg)
    /\ UNCHANGED <<logger, notLogVars>>

\* s.infof(...) in a worker.
ServerInfof(msg) ==
    /\ nlog < MaxReports
    /\ nlog' = nlog + 1
    /\ lastlog' = [level |-> "info", msg |-> msg]
    /\ printed' = infof(logger, printed, msg)
    /\ UNCHANGED <<logger, notLogVars>>

\* s.errorf(...) in a worker.
ServerErrorf(msg) ==
    /\ nlog < MaxReports
    /\ nlog' = nlog + 1
    /\ lastlog' = [level |-> "error", msg |-> msg]
    /\ printed' = errorf(logger, printed, msg)
    /\ UNCHANGED <<logger, notLogVars>>

NextLog ==
    \/ \E msg \in DebugMessages : ServerDebugf(msg)
    \/ \E msg \in InfoMessages : ServerInfof(msg)
    \/ \E msg \in ErrorMessages : ServerErrorf(msg)

SpecLog == InitLog /\ [][NextLog]_vars

\* ---------------------------------------------------- sockets of any kind
\* A program that calls an entry point of the client on a connection, or
\* one that calls Serve on a listener, the socket being of any kind.
InitKinds == InitRecv \/ InitServe

NextKinds == NextRecv \/ NextServe

SpecKinds == InitKinds /\ [][NextKinds]_vars

\* ============================================================ properties
\* What the claims speak about.

\* The frames of a payload read strictly: k frames, each a 4-byte header
\* followed by exactly as many bytes as the header says, and nothing after
\* the last.  ok tells whether the payload has that form, metas are the
\* bodies of the frames that have it.
RECURSIVE Frames(_, _, _)
Frames(data, k, acc) ==
    IF k = 0 THEN [ok |-> (data = <<>>), metas |-> acc]
    ELSE IF Len(data) < msgHeaderSize THEN [ok |-> FALSE, metas |-> acc]
    ELSE LET len == Uint32(SubSeq(data, 1, 4))
         IN  IF Len(data) - 4 < len THEN [ok |-> FALSE, metas |-> acc]
             ELSE Frames(SubSeq(data, 5 + len, Len(data)), k - 1,
                         Append(acc, SubSeq(data, 5, 4 + len)))

\* The (descriptor, metadata) pairs of a batch: payload data, descriptors fds.
PairsOf(data, fds) ==
    LET f == Frames(data, Len(fds), <<>>)
    IN  [i \in 1..Len(f.metas) |-> [fd |-> fds[i], meta |-> f.metas[i]]]

WellFormedBatch(data, fds) == Frames(data, Len(fds), <<>>).ok

\* The batch the response holds.
Buffered == SubSeq(resp.buf, 1, resp.n)

\* The pairs of all messages handed to the transport so far.
SentPairs == Flatten([i \in 1..Len(sent) |-> PairsOf(sent[i].msg, sent[i].fds)])

\* No send has failed or fallen short.
NoSendFailed ==
    \A i \in 1..Len(sent) :
        sent[i].err = Nil /\ sent[i].msgn = Len(sent[i].msg)
        /\ sent[i].oobn = sent[i].ooblen

\* A step that is a call of Write, of Flush.
WriteStep == \E meta \in Sources, o \in Outcomes : DoWrite(meta, o)
FlushStep == \E o \in Outcomes : DoFlush(o)

\* C4: a Write whose metadata with its header exceeds the payload capacity
\* returns ErrLongWrite (unless the response had failed or the flush it made
\* failed), and every batch buffered or handed to the transport consists of
\* frames whose header equals the number of body bytes stored.
C4_Oversize ==
    /\ (last.op = "Write" /\ last.metaLen + msgHeaderSize > msgn
        /\ last.ret \notin {ErrSend, ErrShortWrite, ErrSource})
       => last.ret = ErrLongWrite
    /\ WellFormedBatch(Buffered, resp.fds)
    /\ \A i \in 1..Len(sent) : WellFormedBatch(sent[i].msg, sent[i].fds)

\* The callbacks made, as (descriptor, metadata) pairs.
ReceivedPairs ==
    [i \in 1..Len(received) |->
        [fd |-> received[i].fd, meta |-> received[i].meta]]

\* C1: when every send went through, the batch was flushed, the connection
\* closed and ReceiveAllFrom has returned, it returned nil after making one
\* callback per pair whose Write returned nil, in write order, each with the
\* descriptor and the metadata bytes written.
C1_RoundTrip ==
    (cstate = "returned" /\ closed /\ NoSendFailed /\ resp.fds = <<>>)
    => (cret = Nil /\ ReceivedPairs = written)

\* C2: the buffered payload buf[:n] is the concatenation of exactly len(fds)
\* well-formed frames, the i-th holding the metadata written with fds[i].
C2_FramesMatchDescriptors ==
    LET f == Frames(Buffered, Len(resp.fds), <<>>)
    IN  /\ f.ok
        /\ \A i \in 1..Len(resp.fds) :
              \E j \in 1..Len(written) :
                  written[j] = [fd |-> resp.fds[i], meta |-> f.metas[i]]

\* C3: as long as no send has failed, the pairs of all batches sent so far
\* followed by the pairs buffered are the pairs whose Write returned nil, in
\* order, none lost and none duplicated.
C3_SendOrder ==
    NoSendFailed => SentPairs \o PairsOf(Buffered, resp.fds) = written

\* C5: one call of Write calls Flush at most once and so sends at most
\* once; with no descriptor capacity or less than 4 bytes of payload
\* capacity it flushes once, retries, and returns ErrLongWrite without a
\* second flush.
C5_AtMostOneFlush ==
    last.op = "Write" =>
        /\ last.flushes <= 1
        /\ last.sends <= last.flushes
        /\ (sizeFromCmsgSpace(oobn) = 0 \/ msgn < msgHeaderSize)
           => (last.ret = ErrLongWrite /\ last.flushes = 1 /\ last.sends = 0)

C5_Witness ==
    /\ last.op = "Write" /\ last.flushes = 1 /\ last.ret = ErrLongWrite
    /\ msgn < msgHeaderSize
    /\ nwrites = 2

\* C6 as stated: once a Write or Flush has returned an error other than
\* ErrLongWrite (a failed send, a short send, an error of the metadata
\* source), the next Write or Flush returns the same error and sends
\* nothing.
C6_AnyErrorTerminal ==
    [][(/\ last.op # "none"
        /\ last.ret \in {ErrSend, ErrShortWrite, ErrSource}
        /\ (WriteStep \/ FlushStep))
       => (last'.ret = last.ret /\ sent' = sent)]_vars

\* C6 amended: an error of a send (failed or short) returned by a Write or
\* Flush is stored in the response, and from then on every Write and Flush
\* returns that stored error, sends nothing and changes nothing; an error of
\* the metadata source is returned by a Write of a response that has not
\* failed, and is not stored.
C6_SendErrorTerminal ==
    /\ [](last.ret \in {ErrSend, ErrShortWrite} => resp.err = last.ret)
    /\ []((last.op = "Write" /\ last.ret = ErrSource) => resp.err = Nil)
    /\ [][resp.err # Nil =>
            /\ resp' = resp /\ sent' = sent /\ wire' = wire
            /\ (WriteStep \/ FlushStep) => last'.ret = resp.err]_vars

C6_Witness ==
    /\ resp.err # Nil
    /\ last.op = "Write" /\ last.sends = 0 /\ last.ret = resp.err
    /\ Len(sent) = 1

\* C7: a Flush of a response that has not failed and holds a non-empty
\* batch makes exactly one send, of the payload buf[:n] and of the whole
\* descriptor list in order; if the send succeeds, n is 0 and the descriptor
\* list empty afterwards, and the message is on the connection.
C7_FlushSendsBatch ==
    [][(FlushStep /\ resp.err = Nil /\ resp.fds # <<>>)
       => /\ Len(sent') = Len(sent) + 1
          /\ SubSeq(sent', 1, Len(sent)) = sent
          /\ sent'[Len(sent')].msg = Buffered
          /\ sent'[Len(sent')].fds = resp.fds
          /\ last'.ret = Nil =>
                /\ resp'.n = 0 /\ resp'.fds = <<>>
                /\ wire' = Append(wire, [msg |-> Buffered,
                                         fds |-> resp.fds])]_vars

C7_Witness ==
    /\ last.op = "Flush" /\ last.sends = 1 /\ last.ret = Nil
    /\ Len(sent[Len(sent)].fds) = 2
    /\ resp.n = 0 /\ resp.fds = <<>>

\* C8 as stated: a Flush of a response with no buffered descriptor returns
\* nil, sends nothing and changes no state.
C8_EmptyFlushReturnsNil ==
    [][(FlushStep /\ resp.fds = <<>>)
       => (last'.ret = Nil /\ sent' = sent /\ wire' = wire
           /\ resp' = resp)]_vars

\* C8 amended: a Flush of a response that has not failed and holds no
\* buffered descriptor returns nil, sends nothing and changes no state; so
\* does a second Flush directly after a successful one.
C8_EmptyFlushNoop ==
    [][(FlushStep /\ resp.err = Nil /\ resp.fds = <<>>)
       => (last'.ret = Nil /\ sent' = sent /\ wire' = wire
           /\ resp' = resp)]_vars

\* One Write, one Flush that sent its frame, and a Flush after it.
C8_Witness ==
    /\ last.op = "Flush" /\ last.sends = 0 /\ last.ret = Nil
    /\ nwrites = 1 /\ Len(sent) = 1 /\ NoSendFailed

\* C9: when the send of a Flush accepts fewer payload bytes or fewer
\* ancillary bytes than requested, Flush returns the short-write error,
\* stores it, and empties payload fill and descriptor list; when the send
\* fails otherwise, Flush returns and stores that error and empties both.
C9_ShortWrite ==
    [][(FlushStep /\ Len(sent') = Len(sent) + 1)
       => LET e == sent'[Len(sent')]
              short == e.err = Nil /\ (e.msgn < Len(e.msg)
                                       \/ e.oobn < e.ooblen)
              err == IF short THEN ErrShortWrite ELSE e.err
          IN  (short \/ e.err # Nil)
              => /\ last'.ret = err /\ resp'.err = err
                 /\ resp'.n = 0 /\ resp'.fds = <<>>]_vars

C9_Witness ==
    /\ last.op = "Flush" /\ last.ret = ErrShortWrite
    /\ resp.err = ErrShortWrite /\ resp.n = 0 /\ resp.fds = <<>>
    /\ sent[Len(sent)].msgn < Len(sent[Len(sent)].msg)

\* C10: 0 <= n <= payload capacity and len(fds) <= descriptor capacity
\* floor(oobn / CmsgSpace(4)), and both capacities keep the value newResponse
\* gave them.
C10_Capacities ==
    /\ resp.n \in 0..msgn
    /\ Len(resp.buf) = msgn
    /\ resp.cap = oobn \div CmsgSpace(4)
    /\ Len(resp.fds) <= resp.cap

\* A Write that found the descriptor list full, flushed, and filled both
\* the list and the payload buffer again.
C10_Witness ==
    /\ last.op = "Write" /\ last.flushes = 1 /\ last.sends = 1
    /\ last.ret = Nil
    /\ Len(resp.fds) = resp.cap
    /\ resp.n = msgn

\* Every Write so far returned nil and carried empty metadata, no send has
\* failed, and the capacities are C >= 1 descriptors and P >= 4 bytes.
OnlyEmptyWrites ==
    /\ Len(written) = nwrites
    /\ \A i \in 1..Len(written) : written[i].meta = <<>>
    /\ NoSendFailed
    /\ sizeFromCmsgSpace(oobn) >= 1 /\ msgn >= msgHeaderSize

\* The pairs of empty metadata one message holds: min(C, floor(P/4)).
EmptyPairsPerMessage == Min(sizeFromCmsgSpace(oobn), msgn \div msgHeaderSize)

CeilDiv(a, b) == (a + b - 1) \div b

\* Where N writes of empty metadata with no call of Flush lead: all but the
\* last of the ceil(N / min(C, floor(P/4))) batches have been emitted, each
\* full, and the last is held.
WritesOnly ==
    IF nwrites = 0
    THEN wire = <<>> /\ resp.fds = <<>>
    ELSE /\ Len(wire) = CeilDiv(nwrites, EmptyPairsPerMessage) - 1
         /\ Len(resp.fds) = nwrites - EmptyPairsPerMessage * Len(wire)

\* The step is a call of Write: only DoWrite counts a write.
WriteCalled == nwrites' = nwrites + 1

\* The step is a call of Flush: the last call is a Flush, and the step is
\* none of the others (DoWrite counts a write, Close closes, ClientReceive
\* reads or returns).
FlushCalled ==
    /\ last'.op = "Flush"
    /\ nwrites' = nwrites
    /\ closed' = closed
    /\ rd' = rd
    /\ cstate' = cstate

\* C11: a call hands one message to the transport for each execution of
\* Flush (by a call of Flush, or inside a Write) that found a non-empty
\* batch, and none otherwise, and the message is emitted unless the send
\* reports an error.  With descriptor capacity C >= 1 and payload capacity
\* P >= 4 and no send that failed, writes of empty metadata from the start
\* keep to WritesOnly, and a Flush after N such writes leaves exactly
\* ceil(N / min(C, floor(P/4))) messages emitted and nothing held.
C11_Batching ==
    /\ [][WriteCalled \/ FlushCalled =>
            /\ Len(sent') - Len(sent) =
                   IF last'.flushes >= 1 /\ resp.fds # <<>> THEN 1 ELSE 0
            /\ Len(wire') - Len(wire) =
                   Cardinality({i \in Len(sent) + 1..Len(sent') :
                                    sent'[i].err = Nil})]_vars
    /\ [](nwrites = 0 /\ sent = <<>> => WritesOnly)
    /\ [][WriteCalled /\ OnlyEmptyWrites' /\ WritesOnly => WritesOnly']_vars
    /\ [][FlushCalled /\ OnlyEmptyWrites' /\ WritesOnly =>
            /\ Len(wire') = CeilDiv(nwrites, EmptyPairsPerMessage)
            /\ resp'.fds = <<>>]_vars

\* Two writes of empty metadata where a message holds one pair, then a
\* Flush: the second Write sent the first pair, the Flush the second.
C11_Witness ==
    /\ OnlyEmptyWrites /\ nwrites = 2
    /\ EmptyPairsPerMessage = 1
    /\ Len(sent) = 2 /\ sent[1].fds = <<FdOf(0)>> /\ sent[2].fds = <<FdOf(1)>>
    /\ last.op = "Flush" /\ last.sends = 1 /\ Len(wire) = 2

\* The payload bytes of the messages on the connection, in order.
WireBytes == Flatten([i \in 1..Len(wire) |-> wire[i].msg])

\* The frames of the writes that returned nil, in order.
WrittenFrames ==
    Flatten([i \in 1..Len(written) |->
                PutUint32(Len(written[i].meta)) \o written[i].meta])

\* C12: a Write that returns nil for metadata of length L advances the fill
\* of the payload buffer (counted from 0 if the call flushed first) by
\* exactly 4 + L bytes, which are L as a 4-byte little-endian integer and
\* then the L metadata bytes, and appends exactly one descriptor; when no
\* send failed, the bytes on the connection and in the batch are the frames
\* of the successful writes in order.
C12_WireFormat ==
    /\ [][WriteStep /\ last'.ret = Nil =>
            LET flushed == last'.flushes >= 1
                base == IF flushed THEN 0 ELSE resp.n
                L == last'.metaLen
                fd == FdOf(nwrites)
            IN  /\ resp'.n = base + msgHeaderSize + L
                /\ SubSeq(resp'.buf, base + 1, resp'.n) = FrameOf(fd, L)
                /\ resp'.fds =
                       (IF flushed THEN <<>> ELSE resp.fds) \o <<fd>>]_vars
    /\ [](NoSendFailed => WireBytes \o Buffered = WrittenFrames)

\* What ReadMsgUnix handed to the last call of receive is well-formed: the
\* first control message carries at least one descriptor and the payload
\* holds one whole frame for each of them.
WellFormedRead(rm) ==
    /\ rm.err = Nil /\ rm.parse = Nil
    /\ rm.cmsgs # <<>> /\ rm.cmsgs[1].rights /\ rm.cmsgs[1].fds # <<>>
    /\ WellFormedBatch(rm.msg, rm.cmsgs[1].fds)

\* The descriptors the callbacks of the last receive were called with.
CallbackFds == [i \in 1..Len(rcv.cbs) |-> rcv.cbs[i].fd]

\* C13: a call of receive on a well-formed message calls the callback once
\* for each descriptor of the first control message, in the order of the
\* list, and returns nil; if the callback returns an error for the k-th
\* descriptor, receive returns that error and has called the callback for
\* the first k descriptors only.
C13_CallbackPerDescriptor ==
    nrecv > 0 /\ ckind = "unix" /\ WellFormedRead(rcv.rm) =>
        LET fds == rcv.rm.cmsgs[1].fds
            k == rcv.cb.at
        IN  IF k = 0
            THEN CallbackFds = fds /\ rcv.err = Nil
            ELSE /\ CallbackFds = SubSeq(fds, 1, k)
                 /\ \A i \in 1..k - 1 : rcv.cbs[i].ret = Nil
                 /\ rcv.cbs[k].ret = rcv.cb.err
                 /\ rcv.err = rcv.cb.err

\* The callback failed for the first of two descriptors.
C13_Witness ==
    /\ nrecv > 0 /\ ckind = "unix" /\ WellFormedRead(rcv.rm)
    /\ Len(rcv.rm.cmsgs[1].fds) = 2
    /\ rcv.cb.at = 1 /\ rcv.cb.err = ErrCallback
    /\ Len(rcv.cbs) = 1 /\ rcv.err = ErrCallback

\* The function called runs the loop of ReceiveAllFrom.
ReceivesAll == centry \in {"ReceiveAllFrom", "Receive"}

\* ReceiveAllFrom terminates.
ReceiveAllTerminates == ReceivesAll ~> cpc = "returned"

\* C14: ReceiveAllFrom makes one receive after another until one fails; it
\* returns nil when that receive met the end of the stream reported by the
\* transport, and returns the error of the receive for every other
\* failure; after it has returned no receive is made; and when the peer
\* closes the connection at some time, it terminates.
C14_ReceiveAll ==
    /\ [][ReceiveStep /\ ReceivesAll =>
            IF rcv'.err = Nil
            THEN cpc' = "receiving"
            ELSE /\ cpc' = "returned"
                 /\ cresult' = IF isEOF(rcv'.rm.err) THEN Nil
                               ELSE rcv'.err]_vars
    /\ [][cpc = "returned" => nrecv' = nrecv]_vars
    /\ ReceiveAllTerminates

\* The last call of receive ended with a callback that returned an error.
CallbackErrored(r) ==
    r.cbs # <<>> /\ r.cbs[Len(r.cbs)].ret # Nil

\* C15: when the callback returns a non-nil error, whatever its value, the
\* function the callback was given to (ReceiveFrom, ReceiveAllFrom,
\* Receive) makes no further callback and no further receive and returns
\* exactly that error.
C15_CallbackError ==
    /\ [][ReceiveStep /\ CallbackErrored(rcv') =>
            /\ cpc' = "returned"
            /\ cresult' = rcv'.cbs[Len(rcv'.cbs)].ret]_vars
    /\ [](\A i \in 1..Len(rcv.cbs) - 1 : rcv.cbs[i].ret = Nil)

\* C16: a call of receive whose ancillary data parse to no control message
\* returns ErrEmptyControlMessage, one whose first control message yields
\* no descriptor returns ErrEmptyFileDescriptors, and neither calls the
\* callback.
C16_EmptyControl ==
    nrecv > 0 /\ ckind = "unix" /\ rcv.rm.err = Nil /\ rcv.rm.parse = Nil =>
        /\ rcv.rm.cmsgs = <<>> =>
               rcv.err = ErrEmptyControlMessage /\ rcv.cbs = <<>>
        /\ rcv.rm.cmsgs # <<>> /\ rcv.rm.cmsgs[1].rights
           /\ rcv.rm.cmsgs[1].fds = <<>> =>
               rcv.err = ErrEmptyFileDescriptors /\ rcv.cbs = <<>>

\* A receive met a control message without descriptors.
C16_Witness ==
    /\ nrecv > 0 /\ ckind = "unix" /\ rcv.reads = 1
    /\ rcv.rm.cmsgs = << RightsOf(<<>>) >>
    /\ rcv.err = ErrEmptyFileDescriptors

\* C18: a Write with a nil metadata source and a Write with a source that
\* produces no bytes both buffer the 4-byte zero header with no body; and
\* for a message that holds one whole frame for each descriptor, the
\* callback gets a nil meta reader exactly for the frames of length 0.
C18_ZeroLength ==
    /\ [][WriteStep /\ last'.ret = Nil /\ last'.metaLen = 0 =>
            LET base == IF last'.flushes >= 1 THEN 0 ELSE resp.n
            IN  /\ resp'.n = base + msgHeaderSize
                /\ SubSeq(resp'.buf, base + 1, resp'.n) = zeroHeader]_vars
    /\ [][ClientReceive /\ rd' = rd + 1
           /\ WellFormedBatch(wire[rd + 1].msg, wire[rd + 1].fds) =>
            LET m == wire[rd + 1]
                metas == Frames(m.msg, Len(m.fds), <<>>).metas
            IN  /\ Len(received') = Len(received) + Len(m.fds)
                /\ \A i \in 1..Len(m.fds) :
                       received'[Len(received) + i].isNil
                           <=> (metas[i] = <<>>)]_vars

\* A source that produced no bytes was written after a pair without
\* metadata that the client has received with a nil reader.
C18_Witness ==
    /\ last.op = "Write" /\ last.ret = Nil
    /\ last.writeTos = 1 /\ last.metaLen = 0
    /\ Buffered = zeroHeader
    /\ Len(received) = 1 /\ received[1].isNil

\* The connections of a Server.
Conns == 1..MaxConns

\* Worker i takes its step that closes the connection.
ClosesConn(i) == workers'[i].closes = workers[i].closes + 1

\* C19 as stated: the worker of every accepted connection calls Flush
\* exactly once after the handler has completed, whether it returned or
\* panicked, and closes the connection only after that.
C19_AlwaysOneFlush ==
    /\ [][\A i \in Conns : ClosesConn(i) => workers[i].flushes = 1]_vars
    /\ [](\A i \in Conns : workers[i].pc = "terminated" =>
              workers[i].flushes = 1 /\ workers[i].closes = 1)

\* C19: after the handler has returned, the worker calls Flush exactly once
\* and only then closes the connection, whether Flush returned an error or
\* not; after the handler has panicked, the worker closes the connection
\* without a call of Flush.  No worker closes its connection twice.
C19_OneFlushUnlessPanicked ==
    /\ [][\A i \in Conns : ClosesConn(i) =>
            /\ workers[i].closes = 0
            /\ workers[i].flushes = IF workers[i].panicked THEN 0 ELSE 1]_vars
    /\ [](\A i \in Conns :
            /\ workers[i].flushes <= 1
            /\ workers[i].pc = "deferred" => workers[i].flushes = 1
            /\ workers[i].pc = "terminated" =>
                  /\ workers[i].closes = 1
                  /\ workers[i].flushes =
                         IF workers[i].panicked THEN 0 ELSE 1)

\* A worker has closed its connection after a Flush that failed.
C19_Witness ==
    \E i \in Conns :
        /\ workers[i].pc = "terminated" /\ ~workers[i].panicked
        /\ workers[i].flushes = 1 /\ workers[i].flushret = ErrSend
        /\ workers[i].closes = 1

\* C20: the worker of every accepted connection whose handler has returned
\* or panicked closes the connection at some time, exactly once, and then
\* ends; once ended it does nothing more.
C20_WorkerCloses ==
    /\ \A i \in Conns :
          workers[i].pc \in {"returned", "panicking"}
              ~> (workers[i].pc = "terminated" /\ workers[i].closes = 1)
    /\ [](\A i \in Conns : workers[i].closes <= 1)
    /\ [][\A i \in Conns : workers[i].pc = "terminated" =>
              workers'[i] = workers[i]]_vars

\* Both workers have ended, one after a panic of its handler, the other
\* after a Flush that failed.
C20_Witness ==
    /\ workers[1].pc = "terminated" /\ workers[1].panicked
    /\ workers[1].closes = 1
    /\ workers[2].pc = "terminated" /\ workers[2].flushret = ErrSend
    /\ workers[2].closes = 1

\* The send is queued whole.
SendOk == [kind |-> "ok", k |-> 0]

\* C21: a step of a worker whose handler panics or has panicked leaves the
\* accept loop and every other worker as they are; and while the handler
\* of one connection has panicked, the accept loop can accept, the handler
\* of every other connection can return, and the Flush after it returns
\* what that connection's own response holds (nil unless a send of its own
\* has failed) when the transport takes the message.
C21_PanicIsolation ==
    /\ [][\A i \in Conns :
            /\ workers'[i].panicked \/ workers[i].panicked
            /\ workers'[i] # workers[i]
            => /\ <<spc, sret, naccepted, slept>>' =
                      <<spc, sret, naccepted, slept>>
               /\ \A j \in Conns \ {i} : workers'[j] = workers[j]]_vars
    /\ [](\A i \in Conns : workers[i].panicked =>
            /\ spc \in {"accepting", "returned"}
            /\ spc = "accepting" /\ naccepted < MaxConns =>
                   ENABLED Accept("conn")
            /\ \A j \in Conns \ {i} :
                   /\ workers[j].pc = "started" => ENABLED WorkerStart(j)
                   /\ workers[j].pc = "handling" => ENABLED HandlerReturn(j)
                   /\ workers[j].pc = "returned" =>
                          ENABLED (/\ WorkerFlush(j, SendOk)
                                   /\ workers'[j].flushret =
                                          workers[j].resp.err))

\* The handler of connection 1 has panicked and its worker has ended; the
\* handler of connection 2 has written a descriptor and returned, the
\* Flush has sent it and returned nil, and the accept loop goes on.
C21_Witness ==
    /\ workers[1].pc = "terminated" /\ workers[1].panicked
    /\ workers[2].pc = "terminated" /\ ~workers[2].panicked
    /\ workers[2].flushes = 1 /\ workers[2].flushret = Nil
    /\ Len(workers[2].wire) = 1
    /\ spc = "accepting"

\* C22: while Serve accepts, a temporary error of AcceptUnix leaves it
\* accepting with nothing returned, however often it has happened before,
\* and any other error makes Serve return that very error; Serve returns
\* only from a refused listener or with the error of AcceptUnix, never nil,
\* and what it has returned stays.
C22_AcceptLoop ==
    /\ [](spc = "accepting" =>
            /\ ENABLED (/\ Accept("temporary")
                        /\ spc' = "accepting" /\ sret' = Nil /\ slept'
                        /\ workers' = workers /\ naccepted' = naccepted)
            /\ ENABLED (/\ Accept("error")
                        /\ spc' = "returned"
                        /\ sret' = AcceptUnix("error").err))
    /\ [][spc = "accepting" /\ spc' # "accepting" =>
            /\ spc' = "returned"
            /\ sret' = AcceptUnix("error").err]_vars
    /\ [](spc = "returned" => sret \in {ErrNotUnixListener, ErrAccept})
    /\ [](sret # Nil <=> spc = "returned")
    /\ [][spc = "returned" => spc' = spc /\ sret' = sret]_vars

\* The accept loop has slept after a temporary error, has accepted a
\* connection, and then Serve has returned the error of AcceptUnix.
C22_Witness ==
    /\ slept /\ naccepted >= 1
    /\ spc = "returned" /\ sret = ErrAccept

\* The descriptors of the handler of connection i.
OwnFd(i, fd) == \E k \in 0..MaxHandlerWrites - 1 : fd = HandlerFd(i, k)

\* The step is a Write or a Flush on the response of connection i.
UsesResponse(i) ==
    \/ workers'[i].hwrites # workers[i].hwrites
    \/ workers'[i].flushes # workers[i].flushes

\* C23: the response a worker starts with is new, with nothing buffered
\* and no error; every descriptor buffered in the response of a connection
\* or sent on that connection was written by the handler of that
\* connection; a Write or Flush for one connection leaves the response and
\* the connection of every other as they are; and while the response of one
\* connection holds an error, a Flush for another returns what its own
\* response holds.
C23_NoSharedState ==
    /\ [][\A i \in Conns :
            workers[i].pc = "started" /\ workers'[i].pc = "handling" =>
                /\ workers'[i].resp =
                       newResponse(ServerSizes.msgn, ServerSizes.oobn)
                /\ workers'[i].wire = <<>>]_vars
    /\ [](\A i \in Conns :
            /\ \A k \in 1..Len(workers[i].resp.fds) :
                   OwnFd(i, workers[i].resp.fds[k])
            /\ \A m \in 1..Len(workers[i].wire) :
                   \A k \in 1..Len(workers[i].wire[m].fds) :
                       OwnFd(i, workers[i].wire[m].fds[k]))
    /\ [][\A i \in Conns : UsesResponse(i) =>
            \A j \in Conns \ {i} :
                /\ workers'[j].resp = workers[j].resp
                /\ workers'[j].wire = workers[j].wire]_vars
    /\ [](\A i \in Conns : workers[i].resp.err # Nil =>
            \A j \in Conns \ {i} : workers[j].pc = "returned" =>
                \A o \in WorkerOutcomes :
                    ENABLED (/\ WorkerFlush(j, o)
                             /\ workers'[j].flushret =
                                    Flush(workers[j].resp, workers[j].wire,
                                          o).ret
                             /\ workers'[i] = workers[i]))

\* The send for connection 1 has failed and its response holds the error;
\* the descriptor of connection 2 has been sent on connection 2 and its
\* Flush has returned nil.
C23_Witness ==
    /\ workers[1].resp.err = ErrSend /\ workers[1].wire = <<>>
    /\ workers[2].flushret = Nil /\ workers[2].resp.err = Nil
    /\ Len(workers[2].wire) = 1
    /\ workers[2].wire[1].fds = <<HandlerFd(2, 0)>>

\* C24: a call of SendTo or of Send (gob era) on a Unix connection with
\* metadata that cannot fit the payload buffer returns ErrLongWrite; and a
\* call that returns nil has written one message to the connection, which
\* carries the descriptor.
C24_SendReportsLongWrite ==
    scall.fn \in {"SendTo", "Send"} =>
        /\ scall.dst = "unix" /\ scall.tooLarge /\ scall.metaErr = Nil =>
               scall.ret = ErrLongWrite
        /\ scall.ret = Nil =>
               /\ scall.emitted = 1
               /\ \E k \in 1..Len(dstwire[Len(dstwire)].fds) :
                      dstwire[Len(dstwire)].fds[k] = scall.fd

\* C25: when a call of SendListenerTo, SendConnTo or SendFileTo has
\* returned nil, the call has written exactly one message to the
\* connection given to send to, which carries the descriptor and the frame
\* of its metadata.
C25_SendersSend ==
    scall.fn \in {"SendListenerTo", "SendConnTo", "SendFileTo"}
    /\ scall.ret = Nil =>
        /\ scall.emitted = 1
        /\ dstwire[Len(dstwire)] =
               [msg |-> FrameOf(scall.fd, scall.metaLen),
                fds |-> <<scall.fd>>]

\* C26: a call of SendConnTo(dst, conn, meta) writes nothing on conn, and
\* it is refused with ErrNotUnixConn exactly when dst is not a Unix
\* connection, whatever conn is.
C26_SendConnToUsesDst ==
    scall.fn = "SendConnTo" =>
        /\ scall.emittedConn = 0 /\ connwire = <<>>
        /\ scall.ret = ErrNotUnixConn <=> scall.dst # "unix"

\* Ancillary capacities, whether a multiple of CmsgSpace(4) or not.
AncillarySizes == 0..4 * CmsgSpace(4)

\* The descriptors ReadMsgUnix hands over in its control messages.
DescriptorsRead(rm) == Flatten([j \in 1..Len(rm.cmsgs) |-> rm.cmsgs[j].fds])

\* C27: for every ancillary capacity and every number k of descriptors
\* from 1 to sizeFromCmsgSpace of it, one control message with k
\* descriptors is no larger than the capacity; every message a response
\* hands to the transport has a payload of at most msgn bytes, at least
\* one and at most sizeFromCmsgSpace(oobn) descriptors, and ancillary data
\* of at most oobn bytes; and a Client with the same msgn and oobn reads
\* every message on the connection whole.
C27_FitsScratch ==
    /\ \A n \in AncillarySizes : \A k \in 1..sizeFromCmsgSpace(n) :
           CmsgSpace(4 * k) <= n
    /\ \A i \in 1..Len(sent) :
           /\ Len(sent[i].msg) <= msgn
           /\ Len(sent[i].fds) \in 1..sizeFromCmsgSpace(oobn)
           /\ sent[i].ooblen = CmsgSpace(4 * Len(sent[i].fds))
           /\ sent[i].ooblen <= oobn
    /\ \A i \in 1..Len(wire) :
           /\ ReadMsgUnix(wire[i], msgn, oobn).msg = wire[i].msg
           /\ DescriptorsRead(ReadMsgUnix(wire[i], msgn, oobn)) = wire[i].fds

\* A message that fills the payload buffer and carries as many descriptors
\* as the ancillary capacity allows, two, has been sent and received.
C27_Witness ==
    /\ sizeFromCmsgSpace(oobn) = 2
    /\ Len(wire) >= 1 /\ rd >= 1
    /\ Len(wire[1].msg) = msgn /\ Len(wire[1].fds) = 2
    /\ Len(received) >= 2

ReportLine(tag) == <<logger.Prefix, tag, lastlog.msg>>

\* A report at the level through a standard logger is printed as the last
\* line, or is dropped if the level is ignored.
Reported(level, tag, ignored) ==
    (nlog' = nlog + 1 /\ lastlog'.level = level
     /\ logger \in StandardLoggers \cup DefaultLoggers)
    => IF ignored
       THEN printed' = printed
       ELSE printed' = Append(printed, ReportLine(tag)')

\* C29: a report at a level through the standard logger is printed when the
\* logger's Ignore flag of that level is false and is dropped when the flag
\* is true, for Debugf, Infof and Errorf alike.
C29_ErrorfPrints ==
    [][/\ Reported("debug", "[DEBUG] ", logger.IgnoreDebug)
       /\ Reported("info", "[INFO] ", logger.IgnoreInfo)
       /\ Reported("error", "[ERROR] ", logger.IgnoreError)]_vars

\* The last call of WriteMsgUnix sent all it was asked to send.
LastSendComplete(snt) ==
    LET x == snt[Len(snt)]
    IN  x.err = Nil /\ x.msgn = Len(x.msg) /\ x.oobn = x.ooblen

\* C30: a Write of non-empty metadata that fits the empty buffer, from a
\* source that reports no error, made when exactly msgHeaderSize bytes of
\* the buffer are left, flushes once, and when the flush has sent all it
\* returns nil with the frame alone in the buffer.
C30_FourBytesLeft ==
    [][(/\ WriteCalled
        /\ resp.err = Nil
        /\ resp.n + msgHeaderSize = Len(resp.buf)
        /\ last'.metaLen > 0
        /\ last'.metaLen + msgHeaderSize <= Len(resp.buf)
        /\ last'.ret # ErrSource)
       => /\ last'.flushes = 1
          /\ Len(sent') = Len(sent) + 1
          /\ LastSendComplete(sent') =>
                /\ last'.ret = Nil
                /\ resp'.n = msgHeaderSize + last'.metaLen
                /\ resp'.fds = <<FdOf(nwrites)>>]_vars

\* A Write on a response without stored error has returned ErrLongWrite.
RejectedLongWrite ==
    /\ WriteCalled
    /\ resp.err = Nil
    /\ last'.ret = ErrLongWrite

\* The step has sent nothing and has left the batch as it was.
BatchKept ==
    /\ sent' = sent
    /\ resp'.n = resp.n
    /\ resp'.fds = resp.fds
    /\ resp'.err = resp.err
    /\ SubSeq(resp'.buf, 1, resp.n) = SubSeq(resp.buf, 1, resp.n)

\* The step has sent the batch, if there was one, whole and as one message,
\* and has left the batch empty.
BatchSent ==
    /\ resp'.n = 0
    /\ resp'.fds = <<>>
    /\ resp'.err = Nil
    /\ IF resp.fds = <<>>
       THEN sent' = sent
       ELSE /\ Len(sent') = Len(sent) + 1
            /\ SubSeq(sent', 1, Len(sent)) = sent
            /\ sent'[Len(sent')].msg = SubSeq(resp.buf, 1, resp.n)
            /\ sent'[Len(sent')].fds = resp.fds
            /\ LastSendComplete(sent')

\* C31 as stated: a Write rejected with ErrLongWrite for metadata that can
\* never fit sends nothing and leaves the payload fill, the descriptor list
\* and the stored error as they were.
C31_RejectedSendsNothing ==
    [][(RejectedLongWrite
        /\ last'.metaLen + msgHeaderSize > Len(resp.buf)) => BatchKept]_vars

\* C31, amended: a Write rejected with ErrLongWrite loses nothing of the
\* batch buffered before it.  When a descriptor slot and room for a frame
\* header are left, it sends nothing and leaves the batch as it was;
\* otherwise it has made its one flush before it looked at the metadata, the
\* batch has gone out whole as one message and the buffer is empty.  The
\* stored error stays nil.
C31_RejectedKeepsPairs ==
    [][RejectedLongWrite =>
          IF Len(resp.fds) = resp.cap
             \/ Len(resp.buf) - resp.n < msgHeaderSize
          THEN last'.flushes = 1 /\ BatchSent
          ELSE last'.flushes = 0 /\ BatchKept]_vars

\* A Write of metadata too large for the buffer was rejected after it had
\* sent the batch buffered before it.
C31_Witness ==
    /\ last.op = "Write"
    /\ last.ret = ErrLongWrite
    /\ last.metaLen + msgHeaderSize > msgn
    /\ last.sends = 1
    /\ resp.fds = <<>>
    /\ resp.err = Nil

\* The error Flush makes of its last send.
LastSendError(snt) ==
    LET x == snt[Len(snt)]
    IN  IF x.err # Nil THEN x.err ELSE ErrShortWrite

\* C32: when the flush a Write makes fails (the send fails or sends less
\* than asked), the Write returns the error of the flush and not
\* ErrLongWrite, the pair is not buffered, payload fill and descriptor list
\* are empty and the error is stored; every later Write and Flush returns
\* the stored error and changes nothing.
C32_ImplicitFlushFails ==
    /\ [][(/\ WriteCalled
           /\ resp.err = Nil
           /\ Len(sent') = Len(sent) + 1
           /\ ~LastSendComplete(sent'))
          => /\ last'.ret = LastSendError(sent')
             /\ last'.ret # ErrLongWrite
             /\ last'.flushes = 1
             /\ written' = written
             /\ resp'.n = 0
             /\ resp'.fds = <<>>
             /\ resp'.err = last'.ret]_vars
    /\ [][resp.err # Nil =>
             /\ resp' = resp
             /\ sent' = sent
             /\ written' = written
             /\ (WriteCalled \/ FlushCalled) => last'.ret = resp.err]_vars

\* A Write has made a flush that failed.
C32_Witness ==
    /\ last.op = "Write"
    /\ last.flushes = 1
    /\ last.sends = 1
    /\ last.ret \in {ErrSend, ErrShortWrite}
    /\ resp.err = last.ret
    /\ resp.n = 0
    /\ Len(written) = 1

\* The payload fill a Write's frame starts at: the fill before the call, or
\* 0 when the call has flushed.
FrameStart == IF last'.flushes = 0 THEN resp.n ELSE 0

\* The metadata bytes of the frame a Write has buffered are the first bytes
\* its source has handed over.
FrameFromSource ==
    LET k == resp'.n - FrameStart - msgHeaderSize
        all == MetaBytes(FdOf(nwrites), last'.metaLen)
    IN  /\ k \in 0..last'.metaLen
        /\ SubSeq(resp'.buf, FrameStart + msgHeaderSize + 1, resp'.n)
              = SubSeq(all, 1, k)
        /\ last'.metaLen + msgHeaderSize <= Len(resp.buf) => k = last'.metaLen

\* C33: one call of Write calls the WriteTo of its metadata source at most
\* once, whether or not it flushes, and the metadata bytes it buffers are
\* those this one call of WriteTo has handed over.
C33_WriteToOnce ==
    [][WriteCalled =>
          /\ last'.writeTos <= 1
          /\ (last'.ret = Nil /\ last'.metaLen > 0) =>
                /\ last'.writeTos = 1
                /\ FrameFromSource]_vars

\* A Write has flushed a batch that left a descriptor slot and more than a
\* header's room free, that is after its source had handed over the bytes,
\* and has buffered the frame.
C33_Witness ==
    /\ last.op = "Write"
    /\ last.ret = Nil
    /\ last.metaLen > 0
    /\ last.writeTos = 1
    /\ last.sends = 1
    /\ Len(resp.fds) = 1
    /\ Len(sent[Len(sent)].fds) < resp.cap
    /\ Len(sent[Len(sent)].msg) + msgHeaderSize < msgn

\* The metadata lengths of the frames of the payload the last call of
\* receive has read, when that payload is whole: one frame for each
\* descriptor of its control message.
WholePayloadLens ==
    {ls \in [1..NumFds(rcv.rm) -> PeerMetaLens] :
        rcv.rm.msg = PeerPayload(ls)}

\* C34: when receive reads a message with one frame for each descriptor,
\* the i-th callback it makes gets the i-th descriptor and a meta reader
\* that has the metadata bytes of the i-th frame and no others (nil for an
\* empty frame), whatever the callbacks before it have read, and what a
\* callback reads are the first of these bytes.
C34_OwnFrame ==
    \A ls \in WholePayloadLens :
        \A i \in 1..Len(rcv.cbs) :
            /\ rcv.cbs[i].fd = FdOf(i - 1)
            /\ rcv.cbs[i].meta = MetaBytes(FdOf(i - 1), ls[i])
            /\ rcv.cbs[i].isNil = (ls[i] = 0)
            /\ rcv.cbs[i].read
                 = SubSeq(rcv.cbs[i].meta, 1, Len(rcv.cbs[i].read))

\* receive has called the callback for two frames with metadata, and the
\* first callback has left bytes of its metadata unread.
C34_Witness ==
    /\ WholePayloadLens # {}
    /\ Len(rcv.cbs) = 2
    /\ rcv.cbs[1].meta # <<>>
    /\ Len(rcv.cbs[1].read) < Len(rcv.cbs[1].meta)
    /\ rcv.cbs[2].meta = MetaBytes(FdOf(1), 2)
    /\ rcv.err = Nil

\* The last call of receive has read descriptors with a payload that is too
\* short to hold a frame header for each of them, and no callback has
\* returned an error.
ShortPayloadRead ==
    /\ nrecv > 0 /\ ckind = "unix"
    /\ NumFds(rcv.rm) > 0
    /\ Len(rcv.rm.msg) < msgHeaderSize * NumFds(rcv.rm)
    /\ ~CallbackErrored(rcv)

\* C35: a call of receive on descriptors whose payload ends before a frame
\* header was read for each of them returns a non-nil error, and so does
\* ReceiveAllFrom; and ReceiveAllFrom, when no callback has returned an
\* error, returns nil only if ReadMsgUnix has reported the end of the
\* stream.
C35_NilOnlyOnClosure ==
    /\ ShortPayloadRead =>
          /\ rcv.err # Nil
          /\ cpc = "returned" /\ cresult # Nil
    /\ (/\ ReceivesAll /\ nrecv > 0 /\ ckind = "unix"
        /\ cpc = "returned" /\ cresult = Nil
        /\ ~CallbackErrored(rcv))
       => isEOF(rcv.rm.err)

\* Serve has returned the error of AcceptUnix.
ServeReturned == spc = "returned" /\ sret = ErrAccept

\* C36: Serve can return a fatal error of AcceptUnix whatever its workers
\* are doing, and its return changes no worker; after it every worker
\* started can take its next step (start, let the handler return, flush,
\* close), a worker whose handler has returned makes its one Flush and
\* closes its connection once, and under fair scheduling of the workers
\* every worker whose handler has returned comes to its end.
C36_WorkersOutliveServe ==
    /\ [](spc = "accepting" => ENABLED Accept("error"))
    /\ [][spc = "accepting" /\ spc' = "returned" => workers' = workers]_vars
    /\ [](ServeReturned => \A i \in Conns :
            /\ workers[i].pc # "killed"
            /\ workers[i].pc = "started" => ENABLED WorkerStart(i)
            /\ workers[i].pc = "handling" => ENABLED HandlerReturn(i)
            /\ workers[i].pc = "returned" =>
                   ENABLED WorkerFlush(i, SendOk)
            /\ workers[i].pc = "deferred" =>
                   workers[i].flushes = 1 /\ ENABLED WorkerClose(i)
            /\ workers[i].pc = "terminated" => workers[i].closes = 1)
    /\ \A i \in Conns :
          (ServeReturned /\ workers[i].pc = "returned")
              ~> (/\ workers[i].pc = "terminated"
                  /\ workers[i].flushes = 1
                  /\ workers[i].closes = 1)

\* Serve has returned the error of AcceptUnix while the handler of one
\* connection has returned and its Flush is still to come, and the worker of
\* another has not yet called its handler.
C36_Witness ==
    /\ ServeReturned
    /\ workers[1].pc = "returned" /\ workers[1].flushes = 0
    /\ workers[2].pc = "started"

\* C37: in the Server of the gob era a worker that has ended has closed its
\* connection, exactly once, whether its handler has returned or panicked.
C37_GobWorkerCloses ==
    \A i \in Conns :
        workers[i].pc = "terminated" => workers[i].closes = 1

\* C38: in the gob era, when no Write or Flush of the writer has failed,
\* all is flushed, the connection is closed and receiveAll has returned, it
\* has returned nil after one callback for each pair written, in order,
\* with the descriptor and the Meta written, in however many messages the
\* pairs have gone out.
C38_GobSelfContained ==
    (cstate = "returned" /\ closed /\ resp.err = Nil /\ resp.fds = <<>>
     /\ Len(written) = nwrites)
    => (cret = Nil /\ received = written)

\* C17: receive on a connection that is not a *net.UnixConn returns
\* ErrNotUnixConn, which ReceiveFrom and ReceiveAllFrom return, without a
\* call of ReadMsgUnix or of the callback; Serve on a listener that is not
\* a *net.UnixListener returns ErrNotUnixListener without a call of
\* AcceptUnix.
C17_WrongKind ==
    /\ ckind = "other" /\ nrecv > 0 =>
          /\ nrecv = 1
          /\ rcv.err = ErrNotUnixConn /\ rcv.reads = 0 /\ rcv.cbs = <<>>
          /\ cpc = "returned" /\ cresult = ErrNotUnixConn
    /\ lkind = "other" =>
          /\ spc \in {"called", "returned"}
          /\ spc = "returned" => sret = ErrNotUnixListener
          /\ naccepted = 0 /\ ~slept

\* ReceiveAllFrom was called on a connection of a wrong kind and has
\* returned.
C17_Witness ==
    /\ ckind = "other" /\ centry = "ReceiveAllFrom" /\ nrecv = 1
    /\ cpc = "returned" /\ cresult = ErrNotUnixConn /\ rcv.reads = 0

====
